---------------------------- MODULE Spec2Model ----------------------------
(***************************************************************************)
(* Model of the IBC Prometheus exporter (ibc_monitor): the scrape loop     *)
(* IBCExporter.run / update_metrics, the topology scanner                  *)
(* StateScanner.scan, the sequence exclusion filter and the pending maps   *)
(* with their first-seen timestamps.                                       *)
(*                                                                         *)
(* update_metrics is modelled step by step, one action per block of the    *)
(* method, ordered by the program counter pc, so that an exception that    *)
(* leaves the method half-way is a reachable state.                        *)
(***************************************************************************)
EXTENDS Integers, Sequences, FiniteSets, TLC

VARIABLES
    clock,          \* time.time(), in seconds
    pc,             \* position of run() / update_metrics()
    idx,            \* position of the running for-loop over a channel table
    now,            \* update_metrics: now = int(time.time())
    home_healthy,   \* update_metrics: home_healthy = self.home_client.health()
    \* ---- fixed by the configuration and the environment of a run
    rest_by_chain,  \* IBCExporter.rest_by_chain: counterparty chain_id -> REST endpoint
    flaky,          \* the endpoints whose answers vary in this run (see Flaky)
    filters,        \* the six filter lists of the home ChainConfig
    \* ---- StateScanner fields
    last_scan,
    clients,
    client_chain_map,
    client_counterparty_client_ids,
    connection_client_map,
    connections,
    channels,
    cp_connections,
    cp_channels,
    \* ---- IBCExporter fields
    pending_packets,
    pending_acks,
    \* ---- metrics.py gauges: label tuple -> value (a label set exists once set)
    REST_HEALTH,
    CLIENT_TRUSTING_PERIOD,
    CLIENT_LAST_UPDATE,
    BACKLOG_SIZE,
    BACKLOG_OLDEST_SEQ,
    BACKLOG_OLDEST_TIMESTAMP,
    ACK_OLDEST_SEQ,
    ACK_OLDEST_TIMESTAMP,
    BACKLOG_UPDATED,
    \* ---- observation of the last executed block (locals of the code)
    iter,           \* locals of the last channel iteration and the queries it issued
    scan_log,       \* what the last scan() call did, and what the one before did
    \* ---- the upstream across two consecutive cycles
    twice,          \* whether the run follows the upstream's answers from cycle to cycle
    answers,        \* the answers the upstream gave in the cycle, per query
    fixed,          \* whether the upstream answers this cycle as it did the cycle before
    before,         \* the maps, gauges and tables at the start of a cycle with fixed answers
    \* ---- the home chain's RESTClient and the network it talks to
    registry,       \* what the chain-registry answers when _load_fallbacks asks
    endpoint,       \* RESTClient.endpoint, the active endpoint
    fallbacks,      \* RESTClient.fallbacks
    loaded,         \* RESTClient._loaded_fallbacks
    unhealthy,      \* RESTClient.unhealthy
    net,            \* the condition of every endpoint
    call            \* the last call of health() or query(): what it did and returned

vars == <<clock, pc, idx, now, home_healthy, rest_by_chain, flaky, filters, last_scan, clients, client_chain_map,
          client_counterparty_client_ids, connection_client_map, connections,
          channels, cp_connections, cp_channels, pending_packets, pending_acks,
          REST_HEALTH, CLIENT_TRUSTING_PERIOD, CLIENT_LAST_UPDATE, BACKLOG_SIZE,
          BACKLOG_OLDEST_SEQ, BACKLOG_OLDEST_TIMESTAMP, ACK_OLDEST_SEQ,
          ACK_OLDEST_TIMESTAMP, BACKLOG_UPDATED, iter, scan_log,
          twice, answers, fixed, before,
          registry, endpoint, fallbacks, loaded, unhealthy, net, call>>

config_vars == <<rest_by_chain, flaky, filters, twice, registry>>

client_vars == <<endpoint, fallbacks, loaded, unhealthy>>

rest_vars == <<client_vars, net, call>>

upstream_vars == <<answers, fixed, before>>

scanner_vars == <<last_scan, clients, client_chain_map, client_counterparty_client_ids,
                  connection_client_map, connections, channels, cp_connections,
                  cp_channels>>

channel_gauges == <<BACKLOG_SIZE, BACKLOG_OLDEST_SEQ, BACKLOG_OLDEST_TIMESTAMP,
                    ACK_OLDEST_SEQ, ACK_OLDEST_TIMESTAMP>>

client_gauges == <<CLIENT_TRUSTING_PERIOD, CLIENT_LAST_UPDATE>>

-----------------------------------------------------------------------------
(* Bounds of the model *)

\* sequences range over 1..MaxSeq
MaxSeq == 2
\* the clock starts at Epoch (time.time() is far beyond any refresh interval)
Epoch == 10
\* the loop is followed until the clock reaches Epoch + MaxElapsed
MaxElapsed == 2
\* cfg.update_interval and cfg.state_refresh_interval of the modelled configuration
update_interval == 1
state_refresh_interval == 2

Seqs == 1..MaxSeq

-----------------------------------------------------------------------------
(* The modelled configurations: a home chain "h" and one counterparty "a",  *)
(* which is configured with a REST endpoint or with none.                  *)

home_chain_id == "h"
cp_chain_ids == <<"a">>

\* the empty mapping (an empty dict)
EmptyMap == [x \in {} |-> 0]

\* the rests list of the home chain: two URLs
home_rests == <<"http://h", "http://h2">>

\* the rests lists a configuration may give the chains
ConfigRests ==
    {[c \in {"h", "a"} |-> IF c = "a" THEN r ELSE home_rests] : r \in {<<>>, <<"http://a">>}}

\* IBCExporter.__init__, lines 102-107: a REST client on rests[0] for every
\* counterparty that has rests; the others are left out
RestByChain(rests) ==
    [c \in {cp_chain_ids[i] : i \in {j \in DOMAIN cp_chain_ids : rests[cp_chain_ids[j]] # <<>>}}
        |-> rests[c][1]]

\* IBCExporter.__init__, line 99: the home client is built on rests[0]
home_endpoint == home_rests[1]

\* cfg.excluded_sequences.map after ExcludedSequences.__init__
excluded_map == [ch \in {"ch1"} |-> {2}]

is_excluded(channel, seq) ==
    seq \in (IF channel \in DOMAIN excluded_map THEN excluded_map[channel] ELSE {})


-----------------------------------------------------------------------------
(* Generic helpers on sequences and mappings *)

Range(s) == {s[i] : i \in DOMAIN s}

\* dict.get(key, default)
Get(m, k, default) == IF k \in DOMAIN m THEN m[k] ELSE default

\* d[k] = v on a dict
Put(m, k, v) == [x \in DOMAIN m \cup {k} |-> IF x = k THEN v ELSE m[x]]

\* the elements of a set of integers as an ascending list
RECURSIVE SortedSeq(_)
SortedSeq(S) ==
    IF S = {} THEN <<>>
    ELSE LET m == CHOOSE x \in S : \A y \in S : x <= y
         IN <<m>> \o SortedSeq(S \ {m})

-----------------------------------------------------------------------------
(* RESTClient.query as the exporter and the scanner see it: the decoded    *)
(* body, or the empty object once every endpoint has failed.               *)

Exhausted == [kind |-> "exhausted"]

\* the endpoints answer the request with HTTP 404
NotFound == [kind |-> "not_found"]

\* the dict returned by query(): {} when all endpoints failed, whatever the
\* failure was (rest_client.py, lines 96-103)
query(response) == IF response \in {Exhausted, NotFound} THEN EmptyMap ELSE response

-----------------------------------------------------------------------------
(* The chains' IBC topology as the REST endpoints may report it.  A scan   *)
(* input says which of these objects the endpoints list at that moment.    *)

UpClientChain == [c \in {"c1", "c2", "c3"} |-> IF c = "c3" THEN "z" ELSE "a"]
UpClientConn == [c \in {"c1", "c2", "c3"} |->
    IF c = "c1" THEN "conn1" ELSE IF c = "c2" THEN "conn2" ELSE "conn3"]
UpConnCounterparty == [c \in {"conn1", "conn2", "conn3"} |->
    IF c = "conn1" THEN [client_id |-> "ca1", connection_id |-> "cconn1"]
    ELSE IF c = "conn2" THEN [client_id |-> "ca2", connection_id |-> "cconn2"]
    ELSE [client_id |-> "cz1", connection_id |-> "cconn3"]]
UpConnChannels == [c \in {"conn1", "conn2", "conn3"} |->
    IF c = "conn1"
    THEN <<[port_id |-> "transfer", channel_id |-> "ch1",
            counterparty |-> [port_id |-> "transfer", channel_id |-> "chA"]],
           [port_id |-> "transfer", channel_id |-> "ch2",
            counterparty |-> [port_id |-> "transfer", channel_id |-> "chB"]]>>
    ELSE IF c = "conn2"
    THEN <<[port_id |-> "transfer", channel_id |-> "ch4",
            counterparty |-> [port_id |-> "transfer", channel_id |-> "chD"]]>>
    ELSE <<[port_id |-> "transfer", channel_id |-> "ch3",
            counterparty |-> [port_id |-> "transfer", channel_id |-> "chZ"]]>>]
UpCpConnChannel == [c \in {"cconn1", "cconn2"} |->
    IF c = "cconn1"
    THEN [port_id |-> "transfer", channel_id |-> "chA",
          counterparty |-> [port_id |-> "transfer", channel_id |-> "ch1"]]
    ELSE [port_id |-> "transfer", channel_id |-> "chD",
          counterparty |-> [port_id |-> "transfer", channel_id |-> "ch4"]]]

\* what the endpoints list during one scan: exhausted = the client_states
\* listing failed on every endpoint; otherwise the listed objects (the client
\* c3 of the unconfigured chain z, its connection and its channel are always
\* listed); malformed = the channels listing of conn1 holds an entry that is
\* not an object; not_found = the requests that are answered with a 404
TopoInputs ==
    {[exhausted |-> TRUE, malformed |-> FALSE, not_found |-> {},
      clients |-> {}, conns |-> {}, chans |-> {}, cpchans |-> {}]}
    \cup
    {[exhausted |-> FALSE, malformed |-> TRUE, not_found |-> {},
      clients |-> {"c1"}, conns |-> {"conn1"}, chans |-> {}, cpchans |-> {}]}
    \cup
    {t \in [exhausted : {FALSE}, malformed : {FALSE}, not_found : {{}},
            clients : SUBSET {"c1"}, conns : SUBSET {"conn1"},
            chans : SUBSET {"ch1", "ch2"}, cpchans : SUBSET {"cconn1"}] :
        \* what is never asked for is left out: the connections of a client
        \* that is not listed, the channels of a connection that is not listed
        /\ t.clients = {} => t.conns = {}
        /\ t.conns = {} => t.chans = {} /\ t.cpchans = {}}

\* the paths of the scan's requests below the client_states listing
PathClientConnections(cid) == "client_connections/" \o cid
PathConnection(conn) == "connections/" \o conn
PathChannels(conn) == "connections/" \o conn \o "/channels"
PathCpChannels(cp_conn) == "cp:connections/" \o cp_conn \o "/channels"

\* GET /ibc/core/client/v1/client_states
RespClientStates(topo) ==
    IF topo.exhausted THEN Exhausted
    ELSE [client_states |->
            SelectSeq([i \in 1..3 |->
                         [client_id |-> <<"c1", "c2", "c3">>[i],
                          client_state |-> [chain_id |-> UpClientChain[<<"c1", "c2", "c3">>[i]]]]],
                      LAMBDA c : c.client_id \in topo.clients \cup {"c3"})]

\* GET /ibc/core/connection/v1/client_connections/{cid}
RespClientConnections(topo, cid) ==
    IF PathClientConnections(cid) \in topo.not_found THEN NotFound
    ELSE [connection_paths |->
            IF cid = "c3" \/ UpClientConn[cid] \in topo.conns
            THEN <<UpClientConn[cid]>> ELSE <<>>]

\* GET /ibc/core/connection/v1/connections/{conn}
RespConnection(topo, conn) ==
    IF PathConnection(conn) \in topo.not_found THEN NotFound
    ELSE [connection |-> [counterparty |-> UpConnCounterparty[conn]]]

\* GET /ibc/core/channel/v1/connections/{conn}/channels on the home chain
RespChannels(topo, conn) ==
    IF PathChannels(conn) \in topo.not_found THEN NotFound
    ELSE [channels |->
            SelectSeq(UpConnChannels[conn],
                      LAMBDA ch : conn = "conn3" \/ ch.channel_id \in topo.chans)]

\* GET /ibc/core/channel/v1/connections/{cp_conn}/channels on a counterparty
RespCpChannels(topo, cp_conn) ==
    IF PathCpChannels(cp_conn) \in topo.not_found THEN NotFound
    ELSE [channels |-> IF cp_conn \in topo.cpchans THEN <<UpCpConnChannel[cp_conn]>> ELSE <<>>]


-----
(* StateScanner *)

\* the filter lists of the home ChainConfig
whitelist_clients == filters.whitelist_clients
blacklist_clients == filters.blacklist_clients
whitelist_connections == filters.whitelist_connections
blacklist_connections == filters.blacklist_connections
whitelist_channels == filters.whitelist_channels
blacklist_channels == filters.blacklist_channels

\* the defaults of ChainConfig: c.get("whitelist_clients", []) and so on
NoFilters ==
    [whitelist_clients |-> <<>>, blacklist_clients |-> <<>>,
     whitelist_connections |-> <<>>, blacklist_connections |-> <<>>,
     whitelist_channels |-> <<>>, blacklist_channels |-> <<>>]

\* fnmatch.fnmatch for literal patterns and the pattern "*"
fnmatch(name, pat) == pat = "*" \/ pat = name

\* a filter in which the blacklist also removes what the whitelist keeps
MatchBothLists(item, whitelist, blacklist) ==
    /\ whitelist # <<>> => \E i \in DOMAIN whitelist : fnmatch(item, whitelist[i])
    /\ ~ \E i \in DOMAIN blacklist : fnmatch(item, blacklist[i])

_match_any(item, whitelist, blacklist) ==
    IF whitelist # <<>>
    THEN \E i \in DOMAIN whitelist : fnmatch(item, whitelist[i])
    ELSE ~ \E i \in DOMAIN blacklist : fnmatch(item, blacklist[i])

_filter_list(items, whitelist, blacklist) ==
    SelectSeq(items, LAMBDA i : _match_any(i, whitelist, blacklist))

\* a set of identifiers as a list (list(cp_conn_ids))
RECURSIVE SetToSeq(_)
SetToSeq(S) ==
    IF S = {} THEN <<>>
    ELSE LET m == CHOOSE x \in S : TRUE IN <<m>> \o SetToSeq(S \ {m})

\* res.get(list_key, []) or []
ListOf(res, list_key) == IF list_key \in DOMAIN res THEN res[list_key] ELSE <<>>

\* a scanner that takes every chain for a configured counterparty
AnyCounterparty(chain_id) == TRUE

\* line 144: chain_id in self.counterparty_chain_ids
IsConfiguredCounterparty(chain_id) == chain_id \in Range(cp_chain_ids)

\* scan(), step 1: the listed clients whose chain is a configured counterparty
ScanLocalClients(topo) ==
    LET all_clients == ListOf(query(RespClientStates(topo)), "client_states")
    IN SelectSeq(all_clients,
                 LAMBDA c : /\ c.client_id # ""
                            /\ c.client_state.chain_id # ""
                            /\ IsConfiguredCounterparty(c.client_state.chain_id))

\* scan(), step 2, the inner loop over the connections of one client
RECURSIVE ScanConnStates(_, _, _, _, _, _)
ScanConnStates(topo, cid, conn_ids, i, chain_map, acc) ==
    IF i > Len(conn_ids) THEN acc
    ELSE
      LET conn == conn_ids[i]
          conn_res == Get(query(RespConnection(topo, conn)), "connection", EmptyMap)
          cp == Get(conn_res, "counterparty", EmptyMap)
          cp_client_id == Get(cp, "client_id", "")
          cp_connection_id == Get(cp, "connection_id", "")
          cp_chain == Get(chain_map, cid, "")
          acc1 == [acc EXCEPT
                    !.connection_client_map = Put(@, conn, cid),
                    !.client_cp_client_ids =
                        IF cp_client_id # "" /\ cid \notin DOMAIN @
                        THEN Put(@, cid, cp_client_id) ELSE @,
                    !.cp_conn_per_chain =
                        IF cp_chain # "" /\ cp_connection_id # ""
                        THEN Put(@, cp_chain, Get(@, cp_chain, {}) \cup {cp_connection_id})
                        ELSE @,
                    !.cp_chain_order =
                        IF cp_chain # "" /\ cp_connection_id # "" /\ cp_chain \notin Range(@)
                        THEN Append(@, cp_chain) ELSE @]
      IN ScanConnStates(topo, cid, conn_ids, i + 1, chain_map, acc1)

\* a loop that a client without connections ends
AfterEmptyStop(cls, i) == Len(cls) + 1

\* lines 168-170: continue with the next client
AfterEmpty(cls, i) == i + 1

\* scan(), step 2: client_connections of every relevant client
RECURSIVE ScanConnections(_, _, _, _, _)
ScanConnections(topo, cls, i, chain_map, acc) ==
    IF i > Len(cls) THEN acc
    ELSE
      LET cid == cls[i]
          conn_ids == ListOf(query(RespClientConnections(topo, cid)), "connection_paths")
      IN IF conn_ids = <<>>
         THEN ScanConnections(topo, cls, AfterEmpty(cls, i), chain_map, acc)
         ELSE LET acc1 == ScanConnStates(topo, cid, conn_ids, 1, chain_map, acc)
              IN ScanConnections(topo, cls, i + 1, chain_map,
                                 [acc1 EXCEPT !.all_conns = @ \o conn_ids])

\* scan(), step 3: the channels of every relevant connection
RECURSIVE ScanChannels(_, _, _, _, _)
ScanChannels(topo, conns, i, conn_client, chain_map) ==
    IF i > Len(conns) THEN <<>>
    ELSE
      LET conn == conns[i]
          chs == ListOf(query(RespChannels(topo, conn)), "channels")
          local_client == Get(conn_client, conn, "")
          cp_chain == Get(chain_map, local_client, "")
          rows == [k \in DOMAIN chs |->
                     <<conn, chs[k].port_id, chs[k].channel_id,
                       chs[k].counterparty.port_id, chs[k].counterparty.channel_id, cp_chain>>]
      IN rows \o ScanChannels(topo, conns, i + 1, conn_client, chain_map)

\* a scanner that runs the counterparty's channels through the channel lists
CpChannelFiltered(port, channel) ==
    _match_any(port \o "/" \o channel, whitelist_channels, blacklist_channels)

\* lines 264-271: every channel the counterparty lists is appended
CpChannelKept(port, channel) == TRUE

\* scan(), step 4, the inner loop: the channels of the counterparty connections
RECURSIVE ScanCpChannelsOn(_, _, _, _)
ScanCpChannelsOn(topo, cp_chain, cp_conns, i) ==
    IF i > Len(cp_conns) THEN <<>>
    ELSE
      LET cp_conn == cp_conns[i]
          chs == ListOf(query(RespCpChannels(topo, cp_conn)), "channels")
          rows == [k \in DOMAIN chs |->
                     <<cp_chain, cp_conn, chs[k].port_id, chs[k].channel_id,
                       chs[k].counterparty.port_id, chs[k].counterparty.channel_id,
                       home_chain_id>>]
      IN SelectSeq(rows, LAMBDA t : CpChannelKept(t[3], t[4])) \o ScanCpChannelsOn(topo, cp_chain, cp_conns, i + 1)

\* scan(), step 4: every counterparty chain that has a REST client
RECURSIVE ScanCounterparties(_, _, _, _, _)
ScanCounterparties(topo, order, i, cp_conn_per_chain, acc) ==
    IF i > Len(order) THEN acc
    ELSE
      LET cp_chain == order[i]
      IN IF cp_chain \notin DOMAIN rest_by_chain
         THEN ScanCounterparties(topo, order, i + 1, cp_conn_per_chain, acc)
         ELSE
           LET filtered == _filter_list(SetToSeq(cp_conn_per_chain[cp_chain]),
                                        whitelist_connections, blacklist_connections)
           IN ScanCounterparties(topo, order, i + 1, cp_conn_per_chain,
                [cp_connections |-> Put(acc.cp_connections, cp_chain, filtered),
                 cp_channels |-> acc.cp_channels \o ScanCpChannelsOn(topo, cp_chain, filtered, 1)])

\* scan() past the throttle: the rebuilt tables
Rebuild(topo) ==
    LET local == ScanLocalClients(topo)
        local_clients == [i \in DOMAIN local |-> local[i].client_id]
        chain_of == [cid \in Range(local_clients) |->
                       (CHOOSE c \in Range(local) : c.client_id = cid).client_state.chain_id]
        new_clients == _filter_list(local_clients, whitelist_clients, blacklist_clients)
        new_chain_map == [cid \in Range(new_clients) |-> chain_of[cid]]
        acc == ScanConnections(topo, new_clients, 1, new_chain_map,
                  [connection_client_map |-> EmptyMap, client_cp_client_ids |-> EmptyMap,
                   all_conns |-> <<>>, cp_conn_per_chain |-> EmptyMap, cp_chain_order |-> <<>>])
        new_connections == _filter_list(acc.all_conns, whitelist_connections, blacklist_connections)
        chan_list == ScanChannels(topo, new_connections, 1, acc.connection_client_map, new_chain_map)
        cps == ScanCounterparties(topo, acc.cp_chain_order, 1, acc.cp_conn_per_chain,
                                  [cp_connections |-> EmptyMap, cp_channels |-> <<>>])
    IN [clients |-> new_clients,
        client_chain_map |-> new_chain_map,
        connection_client_map |-> acc.connection_client_map,
        client_counterparty_client_ids |-> acc.client_cp_client_ids,
        connections |-> new_connections,
        channels |-> SelectSeq(chan_list,
                        LAMBDA t : _match_any(t[2] \o "/" \o t[3],
                                              whitelist_channels, blacklist_channels)),
        cp_connections |-> cps.cp_connections,
        cp_channels |-> cps.cp_channels]


-----------------------------------------------------------------------------
(* Responses of the channel endpoints *)

\* decimal strings of the sequences, as the JSON bodies carry them
Digits == <<"1", "2", "3", "4", "5", "6", "7", "8", "9">>
str(n) == Digits[n]
\* int() raises ValueError for anything but a decimal string
Unparsable(v) == ~ \E n \in DOMAIN Digits : Digits[n] = v
\* int(): the number a decimal string denotes
int(v) == CHOOSE n \in DOMAIN Digits : Digits[n] = v

NoKey == "null"

\* one page of a packet_commitments listing holding the sequences of list l
CommitPage(l, next_key) ==
    [commitments |-> [i \in DOMAIN l |-> [sequence |-> str(l[i])]],
     pagination |-> [next_key |-> next_key]]

\* the packet_commitments listings an endpoint may give, as lists of pages:
\* every set of sequences on one page, the full set over two pages, a listing
\* with an entry that has no "sequence", and the failure of every endpoint
CommitResponses ==
    {<<CommitPage(SortedSeq(S), NoKey)>> : S \in SUBSET Seqs}
    \cup {<<CommitPage(<<1>>, "k1"), CommitPage(SortedSeq(Seqs \ {1}), NoKey)>>}
    \cup {<<[commitments |-> <<[data |-> "x"]>>, pagination |-> [next_key |-> NoKey]]>>}
    \cup {<<Exhausted>>}

\* an entry of a JSON list that is a string and not an object
NotAnObject == [text |-> "x"]

AckResponses ==
    {[acknowledgements |-> [i \in DOMAIN SortedSeq(S) |-> [sequence |-> str(SortedSeq(S)[i])]]]
        : S \in SUBSET Seqs}
    \cup {Exhausted, [acknowledgements |-> <<NotAnObject>>]}

UnreceivedResponses ==
    {[sequences |-> [i \in DOMAIN SortedSeq(S) |-> str(SortedSeq(S)[i])]] : S \in SUBSET Seqs}
    \cup {Exhausted}

\* A run follows the answers of one group of endpoints in full: the packet
\* endpoints asked for one channel ("ch1", "ch2" on the home chain, "chA" on the
\* counterparty), or the client endpoints and the counterparties' health probes
\* ("clients").  The endpoints outside the group answer, with an empty listing
\* (packet endpoints) or with the client's values (client endpoints).
Flaky == {"ch1", "ch2", "chA", "clients"}

\* the stand-in for a query the code does not issue
NotAsked == [kind |-> "not asked"]

-----------------------------------------------------------------------------
(* IBCExporter helpers *)

\* _query_all_list: the items of the pages, following pagination.next_key
RECURSIVE _query_all_list(_, _, _)
_query_all_list(pages, i, list_key) ==
    LET res == query(pages[i])
        items == ListOf(res, list_key)
        next_key == IF "pagination" \in DOMAIN res THEN res.pagination.next_key ELSE NoKey
    IN IF next_key = NoKey \/ i = Len(pages)
       THEN items
       ELSE items \o _query_all_list(pages, i + 1, list_key)

\* _filtered_ack_sequences: nothing for an empty list; else the returned sequences
_filtered_ack_sequences(response, seqs) ==
    IF seqs = <<>> THEN {}
    ELSE LET res == query(response)
             acks == ListOf(res, "acknowledgements")
         IN {int(acks[i].sequence) : i \in {j \in DOMAIN acks : ~ Unparsable(acks[j].sequence)}}

\* line 147: a.get("sequence", 0) raises AttributeError for an entry that is no
\* object; the except clause of line 148 catches TypeError and ValueError only
AckSeqsRaise(response, seqs) ==
    /\ seqs # <<>>
    /\ LET acks == ListOf(query(response), "acknowledgements")
       IN \E i \in DOMAIN acks : acks[i] = NotAnObject

\* an acknowledgement query that carries every listed sequence
AckQueryListed(seqs, valid_seqs) == seqs

\* line 369: the sequences the acknowledgement query is about are valid_seqs
AckQuerySeqs(seqs, valid_seqs) == valid_seqs

\* a helper that takes every acknowledged sequence as unreceived
UnreceivedUnasked(response, ack_seqs) == ack_seqs

\* _unreceived_acks: no request for an empty set; else the returned sequences
_unreceived_acks(response, ack_seqs) ==
    IF ack_seqs = {} THEN {}
    ELSE LET res == query(response)
             l == ListOf(res, "sequences")
         IN {int(l[i]) : i \in {j \in DOMAIN l : ~ Unparsable(l[j])}}

\* int(c['sequence']) raises for some entry c of sp_items (KeyError, ValueError)
CommitSeqsRaises(sp_items) ==
    \E i \in DOMAIN sp_items :
        \/ "sequence" \notin DOMAIN sp_items[i]
        \/ Unparsable(sp_items[i].sequence)

\* seqs = [int(c['sequence']) for c in sp_items]
CommitSeqs(sp_items) == [i \in DOMAIN sp_items |-> int(sp_items[i].sequence)]

\* valid_seqs: the sequences not excluded for the channel
ValidSeqs(seqs, channel) == SelectSeq(seqs, LAMBDA s : ~ is_excluded(channel, s))

\* a pending update that forgets the deletion loop
KeepVanished(pending, valid) == pending

\* for s in list(pending.keys()): if s not in valid: del pending[s]
DropVanished(pending, valid) == [s \in DOMAIN pending \cap valid |-> pending[s]]

\* an insertion loop that stamps every valid sequence with the cycle's now
AddNewOverwrite(pending, valid, t) == [s \in DOMAIN pending \cup valid |-> t]

\* an insertion loop that stamps a new sequence with the second before now
AddNewStale(pending, valid, t) ==
    [s \in DOMAIN pending \cup valid |-> IF s \in DOMAIN pending THEN pending[s] ELSE t - 1]

\* for s in valid: if s not in pending: pending[s] = now
AddNew(pending, valid, t) ==
    [s \in DOMAIN pending \cup valid |-> IF s \in DOMAIN pending THEN pending[s] ELSE t]

\* both loops over a pending map
UpdatePending(pending, valid, t) == AddNew(DropVanished(pending, valid), valid, t)

Min(S) == CHOOSE x \in S : \A y \in S : x <= y

Max(S) == CHOOSE x \in S : \A y \in S : x >= y

\* an oldest sequence taken from the wrong end of the map
NewestSeq(pending) == IF DOMAIN pending # {} THEN Max(DOMAIN pending) ELSE 0

\* oldest_seq = min(pending) if pending else 0
OldestSeq(pending) == IF DOMAIN pending # {} THEN Min(DOMAIN pending) ELSE 0

\* an oldest timestamp that is the time of the cycle instead of first_seen
CycleTs(pending) == IF DOMAIN pending # {} THEN now ELSE 0

\* oldest_ts = pending.get(oldest_seq, 0)
OldestTs(pending) == Get(pending, OldestSeq(pending), 0)


-----------------------------------------------------------------------------
(* RESTClient: health() and query() of the home chain's client *)

\* self.primary: rests[0] of the home chain
primary == home_endpoint

\* what the chain-registry may answer: no answer, the primary next to an empty
\* address and one fallback, one fallback listed twice, two fallbacks
Registries ==
    {[ok |-> FALSE, rest |-> <<>>],
     [ok |-> TRUE, rest |-> <<[address |-> primary], [address |-> ""],
                              [address |-> "http://f1"]>>],
     [ok |-> TRUE, rest |-> <<[address |-> "http://f1"], [address |-> "http://f1"]>>],
     [ok |-> TRUE, rest |-> <<[address |-> "http://f1"], [address |-> "http://f2"]>>]}

\* _load_fallbacks: the addresses of apis.rest that are not empty and not the
\* primary, in the registry's order; none when the request fails
_load_fallbacks(reg) ==
    IF ~ reg.ok THEN <<>>
    ELSE LET addrs == [i \in DOMAIN reg.rest |-> reg.rest[i].address]
         IN SelectSeq(addrs, LAMBDA a : a # "" /\ a # primary)

\* the condition of an endpoint: "ok"; "mismatch" (answers, node_info names
\* another network); "down" (no answer); "probe_only" (node_info passes, other
\* requests fail); "not_found" (node_info passes, the request gets a 404)
Status == {"ok", "mismatch", "down", "probe_only", "not_found"}

\* the endpoints the client can come to know with the given registry
Known(reg) == {primary} \cup Range(_load_fallbacks(reg))

AllEndpoints == UNION {Known(reg) : reg \in Registries}

\* the endpoints of the home chain that exist: those the client can come to
\* know and those of the configuration
Network == AllEndpoints \cup Range(home_rests)

\* a probe that takes every answering node for the expected chain
ProbeAnswers(st) == st # "down"

\* lines 62-66: the probe succeeds with a 2xx whose network is expected_chain_id
ProbeOk(st) == st \in {"ok", "probe_only", "not_found"}

\* lines 92-95: the request succeeds with a 2xx and a JSON body
RequestOk(st) == st \in {"ok", "mismatch"}

\* a health() that forgets every mark at its start
ResetAlways(unh, eps) == {}

\* lines 56-57: if len(self.unhealthy) >= len(endpoints): self.unhealthy.clear()
ResetIfAll(unh, eps) == IF Cardinality(unh) >= Len(eps) THEN {} ELSE unh

\* a loop that reports the first success and keeps the active endpoint
RECURSIVE HealthLoopNoSwitch(_, _, _, _, _, _)
HealthLoopNoSwitch(eps, i, unh, active, n, probed) ==
    IF i > Len(eps)
    THEN [ret |-> FALSE, endpoint |-> active, unhealthy |-> unh, probed |-> probed]
    ELSE IF eps[i] \in unh
    THEN HealthLoopNoSwitch(eps, i + 1, unh, active, n, probed)
    ELSE IF ProbeOk(n[eps[i]])
    THEN [ret |-> TRUE, endpoint |-> active, unhealthy |-> unh,
          probed |-> Append(probed, eps[i])]
    ELSE HealthLoopNoSwitch(eps, i + 1, unh \cup {eps[i]}, active, n, Append(probed, eps[i]))

\* lines 58-83: the loop over endpoints from position i on
RECURSIVE HealthLoop(_, _, _, _, _, _)
HealthLoop(eps, i, unh, active, n, probed) ==
    IF i > Len(eps)
    THEN [ret |-> FALSE, endpoint |-> active, unhealthy |-> unh, probed |-> probed]
    ELSE IF eps[i] \in unh
    THEN HealthLoop(eps, i + 1, unh, active, n, probed)
    ELSE IF ProbeOk(n[eps[i]])
    THEN [ret |-> TRUE, endpoint |-> eps[i], unhealthy |-> unh,
          probed |-> Append(probed, eps[i])]
    ELSE HealthLoop(eps, i + 1, unh \cup {eps[i]}, active, n, Append(probed, eps[i]))

\* a flag that is set only when the registry answered
LoadedAfterSuccess(reg) == reg.ok

\* lines 48-49: finally: self._loaded_fallbacks = True
LoadedAfter(reg) == TRUE

\* health() on the client c = [endpoint, fallbacks, loaded, unhealthy] in the
\* network n: the client after the call, the value returned, the probes made
\* and the number of requests sent to the chain-registry
health(c, n) ==
    LET load == ~ c.loaded
        fb == IF load THEN c.fallbacks \o _load_fallbacks(registry) ELSE c.fallbacks
        endpoints == <<primary>> \o fb
        h == HealthLoop(endpoints, 1, ResetIfAll(c.unhealthy, endpoints), c.endpoint, n, <<>>)
    IN [c |-> [endpoint |-> h.endpoint, fallbacks |-> fb,
               loaded |-> IF load THEN LoadedAfter(registry) ELSE c.loaded,
               unhealthy |-> h.unhealthy],
        ret |-> h.ret, probed |-> h.probed, fetches |-> IF load THEN 1 ELSE 0]

\* a loop that allows one attempt more than there are endpoints
MaxAttemptsPlusOne(c) == 2 + Len(c.fallbacks)

\* line 88: len([self.primary] + self.fallbacks)
MaxAttempts(c) == 1 + Len(c.fallbacks)

\* a failure that leaves no mark
MarkNothing(c) == c

\* line 98: self.unhealthy.add(self.endpoint)
MarkFailed(c) == [c EXCEPT !.unhealthy = @ \cup {c.endpoint}]

\* what query() returns: the decoded body of the endpoint that answered, or {}
Body(ep) == [kind |-> "body", from |-> ep]
EmptyBody == [kind |-> "empty"]

\* lines 87-103: the loop of query() with attempts made so far; sent lists the
\* endpoints a request went to, probed the probes of the health() calls, marks
\* the unhealthy set after line 98 for each failed request of the call, rets
\* what health() returned at line 100 for each
RECURSIVE QueryLoop(_, _, _, _, _)
QueryLoop(c, attempts, n, sent, probed) ==
    IF ~ (attempts < MaxAttempts(c))
    THEN [c |-> c, ret |-> EmptyBody, sent |-> sent, probed |-> probed, fetches |-> 0,
          marks |-> <<>>, rets |-> <<>>]
    ELSE IF RequestOk(n[c.endpoint])
    THEN [c |-> c, ret |-> Body(c.endpoint), sent |-> Append(sent, c.endpoint),
          probed |-> probed, fetches |-> 0, marks |-> <<>>, rets |-> <<>>]
    ELSE LET h == health(MarkFailed(c), n)
         IN IF ~ h.ret
            THEN [c |-> h.c, ret |-> EmptyBody, sent |-> Append(sent, c.endpoint),
                  probed |-> probed \o h.probed, fetches |-> h.fetches,
                  marks |-> <<MarkFailed(c).unhealthy>>, rets |-> <<FALSE>>]
            ELSE LET q == QueryLoop(h.c, attempts + 1, n, Append(sent, c.endpoint),
                                    probed \o h.probed)
                 IN [q EXCEPT !.fetches = @ + h.fetches,
                              !.marks = <<MarkFailed(c).unhealthy>> \o @,
                              !.rets = <<TRUE>> \o @]

\* RESTClient.query on the client c in the network n
RESTClient_query(c, n) == QueryLoop(c, 0, n, <<>>, <<>>)

NoCall == [op |-> "none"]

\* RESTClient.__init__
NewClient == [endpoint |-> primary, fallbacks |-> <<>>, loaded |-> FALSE, unhealthy |-> {}]

-----------------------------------------------------------------------------
(* The state after IBCExporter.__init__, before run() calls update_metrics *)

NoIter == [side |-> "none"]

\* no answer seen yet: the health probes, the scan's queries, the client
\* queries, and per channel key the three packet queries
NoAnswers == [health |-> {}, topo |-> {}, clients |-> {}, chan |-> EmptyMap]

NoneBefore == [taken |-> FALSE]

\* the exporter's maps and every gauge, and the scanner's channel tables
Published == [pending_packets |-> pending_packets, pending_acks |-> pending_acks,
              REST_HEALTH |-> REST_HEALTH,
              CLIENT_TRUSTING_PERIOD |-> CLIENT_TRUSTING_PERIOD,
              CLIENT_LAST_UPDATE |-> CLIENT_LAST_UPDATE,
              BACKLOG_SIZE |-> BACKLOG_SIZE,
              BACKLOG_OLDEST_SEQ |-> BACKLOG_OLDEST_SEQ,
              BACKLOG_OLDEST_TIMESTAMP |-> BACKLOG_OLDEST_TIMESTAMP,
              ACK_OLDEST_SEQ |-> ACK_OLDEST_SEQ,
              ACK_OLDEST_TIMESTAMP |-> ACK_OLDEST_TIMESTAMP]

Tables == <<clients, client_chain_map, client_counterparty_client_ids,
            connection_client_map, connections, channels, cp_connections, cp_channels>>

Start ==
    /\ rest_by_chain \in {RestByChain(r) : r \in ConfigRests}
    /\ flaky \in Flaky
    /\ clock = Epoch
    /\ pc = "idle"
    /\ idx = 0
    /\ now = 0
    /\ home_healthy = FALSE
    /\ last_scan = 0
    /\ clients = <<>>
    /\ client_chain_map = EmptyMap
    /\ client_counterparty_client_ids = EmptyMap
    /\ connection_client_map = EmptyMap
    /\ connections = <<>>
    /\ channels = <<>>
    /\ cp_connections = EmptyMap
    /\ cp_channels = <<>>
    /\ pending_packets = EmptyMap
    /\ pending_acks = EmptyMap
    /\ REST_HEALTH = EmptyMap
    /\ CLIENT_TRUSTING_PERIOD = EmptyMap
    /\ CLIENT_LAST_UPDATE = EmptyMap
    /\ BACKLOG_SIZE = EmptyMap
    /\ BACKLOG_OLDEST_SEQ = EmptyMap
    /\ BACKLOG_OLDEST_TIMESTAMP = EmptyMap
    /\ ACK_OLDEST_SEQ = EmptyMap
    /\ ACK_OLDEST_TIMESTAMP = EmptyMap
    /\ BACKLOG_UPDATED = EmptyMap
    /\ iter = NoIter
    /\ scan_log = [did |-> "none", complete |-> FALSE, last_complete |-> 0]
    /\ answers = NoAnswers
    /\ fixed = FALSE
    /\ before = NoneBefore
    /\ endpoint = NewClient.endpoint
    /\ fallbacks = NewClient.fallbacks
    /\ loaded = NewClient.loaded
    /\ unhealthy = NewClient.unhealthy
    /\ net = [e \in Network |-> "ok"]
    /\ call = NoCall

Init == Start /\ twice = FALSE /\ registry = [ok |-> FALSE, rest |-> <<>>] /\ filters = NoFilters

\* the same start, for runs in which a cycle may meet the upstream of the
\* cycle before it
InitTwice ==
    Start /\ twice = TRUE /\ registry = [ok |-> FALSE, rest |-> <<>>] /\ filters = NoFilters

\* the same start, for runs that follow the home chain's RESTClient on every
\* registry, with no counterparty REST client
InitRest ==
    /\ Start
    /\ filters = NoFilters
    /\ twice = FALSE
    /\ flaky = "clients"
    /\ rest_by_chain = EmptyMap
    /\ registry \in Registries

-----------------------------------------------------------------------------
(* update_metrics, lines 222-243: now, the health probes, the early return *)

\* the chains of rest_by_chain in insertion order
RestChains == SelectSeq(cp_chain_ids, LAMBDA c : c \in DOMAIN rest_by_chain)

\* what the counterparties' health probes answer in one cycle
CpHealthInputs ==
    IF flaky = "clients" THEN [DOMAIN rest_by_chain -> BOOLEAN]
    ELSE {[c \in DOMAIN rest_by_chain |-> TRUE]}

\* REST_HEALTH after the probes: one label set per chain and endpoint
HealthGauges(g, hh, cph) ==
    LET g1 == Put(g, <<home_chain_id, home_endpoint>>, IF hh THEN 1 ELSE 0)
    IN [l \in DOMAIN g1 \cup {<<c, rest_by_chain[c]>> : c \in DOMAIN rest_by_chain} |->
          IF l \in {<<c, rest_by_chain[c]>> : c \in DOMAIN rest_by_chain}
          THEN (IF cph[l[1]] THEN 1 ELSE 0)
          ELSE g1[l]]

\* a cycle that goes on to the scan whatever the home probe said
AfterHealthAlways(hh) == "scan"

\* lines 238-243: return when the home chain is unhealthy, else scanner.scan()
AfterHealth(hh) == IF hh THEN "scan" ELSE "sleep"

Health ==
    /\ pc = "idle"
    /\ \E fx \in IF twice /\ answers.health # {} THEN BOOLEAN ELSE {FALSE} :
        \E h \in IF fx THEN answers.health ELSE BOOLEAN \X CpHealthInputs :
          LET hh == h[1]
              cph == h[2]
          IN /\ now' = clock
             /\ home_healthy' = hh
             /\ REST_HEALTH' = HealthGauges(REST_HEALTH, hh, cph)
             /\ pc' = AfterHealth(hh)
             /\ fixed' = fx
             /\ answers' = IF fx \/ ~ twice THEN answers
                           ELSE [NoAnswers EXCEPT !.health = {h}]
             /\ before' = IF fx THEN [taken |-> TRUE, now |-> now, published |-> Published,
                                      updated |-> BACKLOG_UPDATED, tables |-> Tables]
                          ELSE NoneBefore
    /\ iter' = NoIter
    /\ UNCHANGED <<rest_vars, config_vars, clock, idx, scanner_vars, pending_packets, pending_acks,
                   client_gauges, channel_gauges, BACKLOG_UPDATED, scan_log>>

-----------------------------------------------------------------------------
(* StateScanner.scan, called at line 243 *)

\* the chain of the scanner's REST client: the exporter hands it home_client
rest_expected_chain_id == home_chain_id

\* line 222: ch.get("port_id") raises AttributeError for an entry of the
\* channels listing that is not an object; the listing is asked for the
\* connections that passed the filters
ScanRaises(topo, conns) == topo.malformed /\ "conn1" \in Range(conns)

\* now - self.last_scan < self.cfg.state_refresh_interval
Throttled == clock - last_scan < state_refresh_interval

\* scan() from line 127 on, with the answers topo: the assignments to the
\* scanner's tables
ScanTables(topo) ==
    LET t == Rebuild(topo)
        raises == ScanRaises(topo, t.connections)
    IN \* lines 151-152 and 200-203: assigned before the channels are asked
       /\ clients' = t.clients
       /\ client_chain_map' = t.client_chain_map
       /\ client_counterparty_client_ids' = t.client_counterparty_client_ids
       /\ connection_client_map' = t.connection_client_map
       /\ connections' = t.connections
       \* lines 230, 237-238, 251, 271: assigned after them
       /\ channels' = IF raises THEN channels ELSE t.channels
       /\ cp_connections' = IF raises THEN cp_connections ELSE t.cp_connections
       /\ cp_channels' = IF raises THEN cp_channels ELSE t.cp_channels
       /\ scan_log' = [did |-> IF raises THEN "raised" ELSE "rebuilt",
                       complete |-> ~ topo.exhausted /\ ~ raises,
                       last_complete |-> IF topo.exhausted \/ raises
                                         THEN scan_log.last_complete
                                         ELSE clock]

Scan ==
    /\ pc = "scan"
    /\ IF Throttled
       THEN /\ UNCHANGED <<scanner_vars, answers>>
            /\ scan_log' = [scan_log EXCEPT !.did = "throttled"]
       ELSE /\ last_scan' = clock
            /\ IF rest_expected_chain_id # home_chain_id
               THEN /\ UNCHANGED <<clients, client_chain_map, client_counterparty_client_ids,
                                   connection_client_map, connections, channels,
                                   cp_connections, cp_channels, answers>>
                    /\ scan_log' = [scan_log EXCEPT !.did = "skipped"]
               ELSE \E topo \in IF fixed /\ answers.topo # {} THEN answers.topo
                                  ELSE TopoInputs :
                      /\ answers' = IF twice THEN [answers EXCEPT !.topo = {topo}]
                                    ELSE answers
                      /\ ScanTables(topo)
    \* the AttributeError leaves scan(), update_metrics and run()
    /\ pc' = IF scan_log'.did = "raised" THEN "crashed" ELSE "clients"
    /\ UNCHANGED <<rest_vars, config_vars, clock, idx, now, home_healthy, pending_packets, pending_acks,
                   REST_HEALTH, client_gauges, channel_gauges, BACKLOG_UPDATED, iter,
                   fixed, before>>


-----------------------------------------------------------------------------
(* update_metrics, lines 245-311: the client gauges *)

\* values the endpoints report for a client: its trusting period in seconds
\* (parse_duration of client_state.trusting_period) and the epoch of its latest
\* consensus state (_latest_consensus_timestamp)
UpTrustingPeriod == 3
UpConsensusTs == 7

\* what the client endpoints answer during one cycle: whether the home chain's
\* client queries are answered, whether the counterparty passes the health probe
\* of line 281, and whether the counterparty's client queries are answered
ClientInputs ==
    IF flaky = "clients" THEN [home_ok : BOOLEAN, cp_healthy : BOOLEAN, cp_ok : BOOLEAN]
    ELSE {[home_ok |-> TRUE, cp_healthy |-> TRUE, cp_ok |-> TRUE]}

\* lines 246-268: labels and values written for the home client cid
HomeClientLabels(cid, inp) ==
    <<cid, home_chain_id,
      IF inp.home_ok THEN UpClientChain[cid] ELSE "",
      Get(client_counterparty_client_ids, cid, "")>>

\* lines 272-277: (cp_chain, cp_client, home_client) for the clients that have both
CpClientPairs ==
    {<<Get(client_chain_map, clients[i], ""),
       Get(client_counterparty_client_ids, clients[i], ""), clients[i]>> :
        i \in {j \in DOMAIN clients :
                  /\ Get(client_chain_map, clients[j], "") # ""
                  /\ Get(client_counterparty_client_ids, clients[j], "") # ""}}

\* lines 279-311: the label sets written on the counterparties
CpClientLabels(inp) ==
    {<<p[2], p[1], home_chain_id, p[3]>> :
        p \in {q \in CpClientPairs : q[1] \in DOMAIN rest_by_chain /\ inp.cp_healthy}}

ClientGauge(g, inp, home_value, cp_value) ==
    LET home == {HomeClientLabels(clients[i], inp) : i \in DOMAIN clients}
        cp == CpClientLabels(inp)
    IN [l \in DOMAIN g \cup home \cup cp |->
          IF l \in cp THEN (IF inp.cp_ok THEN cp_value ELSE 0)
          ELSE IF l \in home THEN (IF inp.home_ok THEN home_value ELSE 0)
          ELSE g[l]]

\* where update_metrics goes on after the client gauges and after each table
AfterClients == IF channels # <<>> THEN "home"
                ELSE IF cp_channels # <<>> THEN "cp" ELSE "finish"
AfterHome == IF cp_channels # <<>> THEN "cp" ELSE "finish"

ClientMetrics ==
    /\ pc = "clients"
    /\ \E inp \in IF fixed /\ answers.clients # {} THEN answers.clients ELSE ClientInputs :
          /\ answers' = IF twice THEN [answers EXCEPT !.clients = {inp}] ELSE answers
          /\ CLIENT_TRUSTING_PERIOD' =
                ClientGauge(CLIENT_TRUSTING_PERIOD, inp, UpTrustingPeriod, UpTrustingPeriod)
          /\ CLIENT_LAST_UPDATE' =
                ClientGauge(CLIENT_LAST_UPDATE, inp, UpConsensusTs, UpConsensusTs)
    /\ pc' = AfterClients
    /\ idx' = 1
    /\ UNCHANGED <<rest_vars, config_vars, clock, now, home_healthy, scanner_vars, pending_packets, pending_acks,
                   REST_HEALTH, channel_gauges, BACKLOG_UPDATED, iter, scan_log, fixed, before>>

-----------------------------------------------------------------------------
(* update_metrics, lines 314-414: one iteration over scanner.channels *)

\* the seven labels of a channel's gauges
HomeLabels(ch) == <<home_chain_id, ch[1], ch[2], ch[3], ch[6], ch[4], ch[5]>>
CpLabels(ch) == <<ch[1], ch[2], ch[3], ch[4], ch[7], ch[5], ch[6]>>

\* the sequences an endpoint's answer carries (none when it failed or was not asked)
Returned(response, list_key) ==
    IF list_key \notin DOMAIN response THEN {}
    ELSE {IF list_key = "sequences" THEN int(response[list_key][i])
          ELSE int(response[list_key][i].sequence) : i \in DOMAIN response[list_key]}

\* an acknowledgement query that goes out without a receiving client
AskAcksUnknownReceiver(rr_known, valid_seqs) == valid_seqs # <<>>

\* lines 367-368 and 139: the acknowledgement query goes out for a known receiving
\* client and a non-empty valid_seqs
AskAcks(rr_known, valid_seqs) == rr_known /\ valid_seqs # <<>>

\* line 154: the unreceived_acks query goes out for a non-empty acked set
AskUnreceived(acked) == acked # {}

\* The body of one iteration, the same code for both tables (lines 318-401 and
\* 426-508): key is the pending maps' key, channel the channel id on the sending
\* side, l the gauge labels, receiver the chain of the receiving side, more
\* whether the table holds a further row, after the block that follows the table.
ChannelBody(side, key, channel, l, receiver, more, after) ==
    \E commits \in IF fixed /\ key \in DOMAIN answers.chan THEN {answers.chan[key][1]}
                    ELSE IF flaky = channel THEN CommitResponses
                    ELSE {<<CommitPage(<<>>, NoKey)>>} :
      LET sp_items == _query_all_list(commits, 1, "commitments")
      IN IF CommitSeqsRaises(sp_items)
         THEN \* int(c['sequence']) raises; nothing catches it up to run()
              /\ pc' = "crashed"
              /\ iter' = [side |-> side, key |-> key, raised |-> TRUE]
              /\ UNCHANGED <<idx, pending_packets, pending_acks, channel_gauges, answers>>
         ELSE
           LET seqs == CommitSeqs(sp_items)
               valid_seqs == ValidSeqs(seqs, channel)
               pending == UpdatePending(Get(pending_packets, key, EmptyMap),
                                        Range(valid_seqs), now)
               rr_known == receiver = home_chain_id \/ receiver \in DOMAIN rest_by_chain
               ask_acks == AskAcks(rr_known, valid_seqs)
           IN \E acks \in IF fixed /\ key \in DOMAIN answers.chan THEN {answers.chan[key][2]}
                           ELSE IF ask_acks THEN AckResponses ELSE {NotAsked} :
              IF ask_acks /\ AckSeqsRaise(acks, valid_seqs)
              THEN \* lines 328-364 are done, lines 374-401 are never reached
                   /\ pc' = "crashed"
                   /\ pending_packets' = Put(pending_packets, key, pending)
                   /\ BACKLOG_SIZE' = Put(BACKLOG_SIZE, l, Cardinality(DOMAIN pending))
                   /\ BACKLOG_OLDEST_SEQ' = Put(BACKLOG_OLDEST_SEQ, l, OldestSeq(pending))
                   /\ BACKLOG_OLDEST_TIMESTAMP' =
                         Put(BACKLOG_OLDEST_TIMESTAMP, l, OldestTs(pending))
                   /\ iter' = [side |-> side, key |-> key, raised |-> TRUE,
                               listing |-> Range(seqs),
                               ack_query |-> Range(AckQuerySeqs(seqs, valid_seqs))]
                   /\ UNCHANGED <<idx, pending_acks, ACK_OLDEST_SEQ, ACK_OLDEST_TIMESTAMP,
                                  answers>>
              ELSE
                LET acked == IF ask_acks THEN _filtered_ack_sequences(acks, valid_seqs) ELSE {}
                    ask_unrec == AskUnreceived(acked)
                IN \E unrec \in IF fixed /\ key \in DOMAIN answers.chan
                                 THEN {answers.chan[key][3]}
                                 ELSE IF ask_unrec THEN UnreceivedResponses ELSE {NotAsked} :
                     LET unreceived == IF ask_unrec THEN _unreceived_acks(unrec, acked) ELSE {}
                         apending == UpdatePending(Get(pending_acks, key, EmptyMap),
                                                   unreceived, now)
                     IN /\ answers' = IF twice
                                       THEN [answers EXCEPT
                                               !.chan = Put(@, key, <<commits, acks, unrec>>)]
                                       ELSE answers
                        /\ pending_packets' = Put(pending_packets, key, pending)
                        /\ pending_acks' = Put(pending_acks, key, apending)
                        /\ BACKLOG_SIZE' = Put(BACKLOG_SIZE, l, Cardinality(DOMAIN pending))
                        /\ BACKLOG_OLDEST_SEQ' = Put(BACKLOG_OLDEST_SEQ, l, OldestSeq(pending))
                        /\ BACKLOG_OLDEST_TIMESTAMP' =
                              Put(BACKLOG_OLDEST_TIMESTAMP, l, OldestTs(pending))
                        /\ ACK_OLDEST_SEQ' = Put(ACK_OLDEST_SEQ, l, OldestSeq(apending))
                        /\ ACK_OLDEST_TIMESTAMP' =
                              Put(ACK_OLDEST_TIMESTAMP, l, OldestTs(apending))
                        /\ iter' = [side |-> side, key |-> key, raised |-> FALSE,
                                    receiver |-> receiver,
                                    failed |-> Exhausted \in {commits[1], acks, unrec},
                                    asked |-> {"packet_commitments"}
                                        \cup (IF ask_acks THEN {"packet_acknowledgements"} ELSE {})
                                        \cup (IF ask_unrec THEN {"unreceived_acks"} ELSE {}),
                                    listing |-> UNION {Returned(query(commits[i]), "commitments")
                                                          : i \in DOMAIN commits},
                                    ack_query |-> IF ask_acks THEN Range(AckQuerySeqs(seqs, valid_seqs))
                                                  ELSE {},
                                    acked |-> Returned(acks, "acknowledgements"),
                                    unreceived |-> Returned(unrec, "sequences")]
                        /\ idx' = IF more THEN idx + 1 ELSE 1
                        /\ pc' = IF more THEN pc ELSE after

HomeChannel ==
    /\ pc = "home"
    /\ idx <= Len(channels)
    /\ LET ch == channels[idx]
       IN ChannelBody("home", <<home_chain_id, ch[1], ch[2], ch[3]>>, ch[3], HomeLabels(ch),
                      ch[6], idx < Len(channels), AfterHome)
    /\ UNCHANGED <<rest_vars, config_vars, clock, now, home_healthy, scanner_vars, REST_HEALTH, client_gauges,
                   BACKLOG_UPDATED, scan_log, fixed, before>>

-----------------------------------------------------------------------------
(* update_metrics, lines 418-521: one iteration over scanner.cp_channels *)

CpChannel ==
    /\ pc = "cp"
    /\ idx <= Len(cp_channels)
    /\ LET ch == cp_channels[idx]
       IN IF ch[1] \notin DOMAIN rest_by_chain
          THEN \* if not rc: continue
               /\ idx' = IF idx < Len(cp_channels) THEN idx + 1 ELSE 1
               /\ pc' = IF idx < Len(cp_channels) THEN pc ELSE "finish"
               /\ iter' = NoIter
               /\ UNCHANGED <<pending_packets, pending_acks, channel_gauges, answers>>
          ELSE ChannelBody("cp", <<ch[1], ch[2], ch[3], ch[4]>>, ch[4], CpLabels(ch),
                           ch[7], idx < Len(cp_channels), "finish")
    /\ UNCHANGED <<rest_vars, config_vars, clock, now, home_healthy, scanner_vars, REST_HEALTH, client_gauges,
                   BACKLOG_UPDATED, scan_log, fixed, before>>

-----------------------------------------------------------------------------
(* update_metrics, lines 523-528, and the sleep of run() *)

Finish ==
    /\ pc = "finish"
    /\ BACKLOG_UPDATED' =
          [c \in DOMAIN BACKLOG_UPDATED \cup {home_chain_id} \cup DOMAIN rest_by_chain |->
              IF c \in {home_chain_id} \cup DOMAIN rest_by_chain THEN now ELSE BACKLOG_UPDATED[c]]
    /\ pc' = "sleep"
    /\ iter' = NoIter
    /\ UNCHANGED <<rest_vars, config_vars, clock, idx, now, home_healthy, scanner_vars, pending_packets,
                   pending_acks, REST_HEALTH, client_gauges, channel_gauges, scan_log,
                   upstream_vars>>

\* run(): time.sleep(self.cfg.update_interval), then the next update_metrics
Sleep ==
    /\ pc = "sleep"
    /\ clock + update_interval <= Epoch + MaxElapsed
    /\ clock' = clock + update_interval
    /\ pc' = "idle"
    /\ UNCHANGED <<rest_vars, config_vars, idx, now, home_healthy, scanner_vars, pending_packets,
                   pending_acks, REST_HEALTH, client_gauges, channel_gauges, BACKLOG_UPDATED,
                   iter, scan_log, upstream_vars>>

Next == Health \/ Scan \/ ClientMetrics \/ HomeChannel \/ CpChannel \/ Finish \/ Sleep

Spec == Init /\ [][Next]_vars

\* the runs in which a cycle may meet the answers of the cycle before it
SpecTwice == InitTwice /\ [][Next]_vars

-----------------------------------------------------------------------------
(* The home chain's RESTClient in a changing network *)

\* the client's fields as one value
Client == [endpoint |-> endpoint, fallbacks |-> fallbacks, loaded |-> loaded,
           unhealthy |-> unhealthy]

exporter_vars == <<clock, idx, now, rest_by_chain, flaky, filters, twice, registry, scanner_vars,
                   pending_packets, pending_acks, client_gauges, channel_gauges,
                   BACKLOG_UPDATED, iter, scan_log, upstream_vars>>

\* one endpoint the client can come to know changes its condition
NetChange ==
    /\ \E e \in Known(registry), st \in Status :
          /\ net[e] # st
          /\ net' = [net EXCEPT ![e] = st]
    /\ UNCHANGED <<exporter_vars, client_vars, call, pc, home_healthy, REST_HEALTH>>

\* update_metrics, lines 225-240, with the home client's health() in full:
\* the gauge is labelled with the client's endpoint after the call; what
\* follows in the cycle is not followed here but for the client's queries
HomeProbe ==
    /\ LET h == health(Client, net)
       IN /\ endpoint' = h.c.endpoint
          /\ fallbacks' = h.c.fallbacks
          /\ loaded' = h.c.loaded
          /\ unhealthy' = h.c.unhealthy
          /\ home_healthy' = h.ret
          /\ REST_HEALTH' = Put(REST_HEALTH, <<home_chain_id, h.c.endpoint>>,
                                IF h.ret THEN 1 ELSE 0)
          /\ pc' = AfterHealth(h.ret)
          /\ call' = [op |-> "health", ret |-> h.ret, probed |-> h.probed, sent |-> <<>>,
                      fetches |-> h.fetches]
    /\ UNCHANGED <<exporter_vars, net>>

\* one query() of the home client: by the scanner or the exporter in a cycle
\* that was not skipped, or by a caller that holds a new client
HomeQuery ==
    /\ pc # "sleep"
    /\ LET q == RESTClient_query(Client, net)
       IN /\ endpoint' = q.c.endpoint
          /\ fallbacks' = q.c.fallbacks
          /\ loaded' = q.c.loaded
          /\ unhealthy' = q.c.unhealthy
          /\ call' = [op |-> "query", ret |-> q.ret, probed |-> q.probed, sent |-> q.sent,
                      fetches |-> q.fetches, marks |-> q.marks, rets |-> q.rets]
    /\ UNCHANGED <<exporter_vars, net, pc, home_healthy, REST_HEALTH>>

NextRest == NetChange \/ HomeProbe \/ HomeQuery

SpecRest == InitRest /\ [][NextRest]_vars

-----------------------------------------------------------------------------
(* Config, ExcludedSequences, PacketFilter and IBCExporter.__init__ as     *)
(* functions of the configuration they are given                           *)

MaxChains == 3
MaxListed == 12
MaxEntries == 2
MaxRules == 2
MaxPatterns == 2
MaxItems == 2

\* the sequences over S of at most n elements
SeqsUpTo(S, n) == UNION {[1..k -> S] : k \in 0..n}

\* ---- config.py: ExcludedSequences

\* a string, character by character
DigitChars == <<"0", "1", "2", "3", "4", "5", "6", "7", "8", "9">>

\* the decimal text of a number, as a TOML file or str() writes it
RECURSIVE Dec(_)
Dec(n) == IF n < 10 THEN <<DigitChars[n + 1]>>
          ELSE Dec(n \div 10) \o <<DigitChars[(n % 10) + 1]>>

\* s.split(sep)
RECURSIVE Split(_, _)
Split(s, sep) ==
    IF sep \notin Range(s) THEN <<s>>
    ELSE LET k == CHOOSE i \in DOMAIN s : s[i] = sep /\ \A j \in 1..(i - 1) : s[j] # sep
         IN <<SubSeq(s, 1, k - 1)>> \o Split(SubSeq(s, k + 1, Len(s)), sep)

DigitValue(ch) == (CHOOSE d \in DOMAIN DigitChars : DigitChars[d] = ch) - 1

\* int(text) raises ValueError for the empty string and for a character that
\* is no digit
IntRaises(t) == t = <<>> \/ \E i \in DOMAIN t : t[i] \notin Range(DigitChars)

\* int(text)
RECURSIVE ParseInt(_)
ParseInt(t) == IF t = <<>> THEN 0
               ELSE 10 * ParseInt(SubSeq(t, 1, Len(t) - 1)) + DigitValue(t[Len(t)])

\* a range that leaves its end out
RangeEndExclusive(end) == end

\* line 49: range(start, end + 1) stops before end + 1
RangeEnd(end) == end + 1

\* lines 47-51, one entry s = [kind, value, text] of a channel's list: the
\* integers it adds, or the ValueError of int() or of the unpacking
ParsedEntry(s) ==
    IF s.kind = "str" /\ "-" \in Range(s.text)
    THEN LET parts == Split(s.text, "-")
         IN IF Len(parts) # 2 \/ IntRaises(parts[1]) \/ IntRaises(parts[2])
            THEN [raised |-> TRUE, values |-> {}]
            ELSE [raised |-> FALSE,
                  values |-> {n \in ParseInt(parts[1]) .. (RangeEnd(ParseInt(parts[2])) - 1) : TRUE}]
    ELSE IF s.kind = "str"
    THEN IF IntRaises(s.text) THEN [raised |-> TRUE, values |-> {}]
         ELSE [raised |-> FALSE, values |-> {ParseInt(s.text)}]
    ELSE [raised |-> FALSE, values |-> {s.value}]

\* ExcludedSequences.__init__ on raw: channel -> list of entries
ExcludedSequences_init(raw) ==
    IF \E ch \in DOMAIN raw : \E i \in DOMAIN raw[ch] : ParsedEntry(raw[ch][i]).raised
    THEN [raised |-> TRUE, map |-> EmptyMap]
    ELSE [raised |-> FALSE,
          map |-> [ch \in DOMAIN raw |->
                     UNION {ParsedEntry(raw[ch][i]).values : i \in DOMAIN raw[ch]}]]

\* ExcludedSequences.is_excluded on the parsed map
is_excluded_in(map, channel, seq) == seq \in Get(map, channel, {})

\* what an entry of the configuration file is meant to list: one number,
\* written as an integer or as a string, or the range from a to b
Listed == {1, 2, 3, MaxListed}
Meanings == [kind : {"int", "str"}, a : Listed, b : {0}]
            \cup [kind : {"range"}, a : Listed, b : Listed]

\* the entry as the configuration file holds it
Render(m) ==
    IF m.kind = "int" THEN [kind |-> "int", value |-> m.a, text |-> <<>>]
    ELSE IF m.kind = "str" THEN [kind |-> "str", value |-> 0, text |-> Dec(m.a)]
    ELSE [kind |-> "str", value |-> 0, text |-> Dec(m.a) \o <<"-">> \o Dec(m.b)]

\* an entry that int() cannot read
BadEntry == [kind |-> "str", value |-> 0, text |-> <<"1", "-">>]

\* ---- config.py: Config.__init__

\* lines 85-86 with a test that accepts several home chains
HomeCountAtLeastOne(home) == Len(home) >= 1

\* lines 85-86: len(home) != 1 raises
HomeCountOk(home) == Len(home) = 1

\* lines 67-84: one ChainConfig per entry, home_chain False when not given
ChainConfig(c) == [chain_id |-> c.chain_id, rests |-> c.rests,
                   home_chain |-> Get(c, "home_chain", FALSE)]

\* Config.__init__ on the decoded file: the ValueError, or the Config
Config_init(data) ==
    LET chains == [i \in DOMAIN data.chains |-> ChainConfig(data.chains[i])]
        home == SelectSeq(chains, LAMBDA c : c.home_chain)
        ex == ExcludedSequences_init(data.excluded_sequences)
    IN IF ~ HomeCountOk(home) \/ ex.raised
       THEN [raised |-> TRUE]
       ELSE [raised |-> FALSE, chains |-> chains, home_chain |-> home[1],
             excluded_sequences |-> ex.map]

\* the chains a configuration file may list
RestsOf(id) == {<<>>, <<"http://" \o id>>, <<"http://" \o id \o "2", "http://" \o id>>}
RawChains ==
    UNION {[chain_id : {id}, rests : RestsOf(id)]
           \cup [chain_id : {id}, rests : RestsOf(id), home_chain : BOOLEAN] :
           id \in {"h", "a"}}
RawExcluded ==
    {EmptyMap,
     [ch \in {"ch1"} |-> <<Render([kind |-> "range", a |-> 1, b |-> 3])>>],
     [ch \in {"ch1"} |-> <<BadEntry>>]}

\* ---- exporter.py: IBCExporter.__init__

\* a selection that takes every chain for a counterparty
IsAnyChain(c) == TRUE

\* line 93: the chains that are not the home chain
IsCounterparty(c) == ~ c.home_chain

\* lines 102-107: a client on rests[0] for every counterparty that has rests
RECURSIVE BuildRestByChain(_, _, _)
BuildRestByChain(cfgs, i, acc) ==
    IF i > Len(cfgs) THEN acc
    ELSE IF cfgs[i].rests = <<>> THEN BuildRestByChain(cfgs, i + 1, acc)
    ELSE BuildRestByChain(cfgs, i + 1, Put(acc, cfgs[i].chain_id, cfgs[i].rests[1]))

\* IBCExporter.__init__ on a loaded Config: the ValueError, or the fields
IBCExporter_init(cfg) ==
    LET cp_chain_cfgs == SelectSeq(cfg.chains, IsCounterparty)
        ids == [i \in DOMAIN cp_chain_cfgs |-> cp_chain_cfgs[i].chain_id]
    IN IF cfg.home_chain.rests = <<>>
       THEN [raised |-> TRUE]
       ELSE [raised |-> FALSE,
             home_client |-> cfg.home_chain.rests[1],
             cp_chain_ids |-> ids,
             rest_by_chain |-> BuildRestByChain(cp_chain_cfgs, 1, EmptyMap),
             counterparty_chain_ids |-> Range(ids),
             scanner_home_chain_id |-> cfg.home_chain.chain_id]

\* ---- filters.py: PacketFilter

\* line 11: policy.lower() == 'allow'
Policies == {"allow", "deny", "Allow"}
lower(policy) == IF policy = "Allow" THEN "allow" ELSE policy

\* a rule that looks at the client alone
RuleMatchesClient(rule, client, channel) == fnmatch(client, rule[1])

\* line 17: both patterns of the rule match
RuleMatches(rule, client, channel) == fnmatch(client, rule[1]) /\ fnmatch(channel, rule[2])

\* PacketFilter(policy, rules).matches(client, channel)
PacketFilter_matches(policy, rules, client, channel) ==
    LET allow == lower(policy) = "allow"
    IN IF \E i \in DOMAIN rules : RuleMatches(rules[i], client, channel)
       THEN allow ELSE ~ allow

\* ---- the calls

other_vars == <<exporter_vars, client_vars, net, pc, home_healthy, REST_HEALTH>>

\* the functions keep no state from call to call: a run makes one call
Fresh == call = NoCall

\* Config(path) on a configuration file
LoadConfig ==
    /\ Fresh
    /\ \E chains \in SeqsUpTo(RawChains, MaxChains), ex \in RawExcluded :
          call' = [op |-> "Config", chains |-> chains, excluded |-> ex,
                   ret |-> Config_init([chains |-> chains, excluded_sequences |-> ex])]
    /\ UNCHANGED other_vars

\* main(), lines 18-21: IBCExporter(cfg) on a configuration that loaded
Construct ==
    /\ Fresh
    /\ \E chains \in SeqsUpTo(RawChains, MaxChains) :
          LET cfg == Config_init([chains |-> chains, excluded_sequences |-> EmptyMap])
          IN /\ ~ cfg.raised
             /\ call' = [op |-> "IBCExporter", cfg |-> cfg, ret |-> IBCExporter_init(cfg)]
    /\ UNCHANGED other_vars

\* is_excluded on the ExcludedSequences of a configuration that lists ms
\* for the channel ch1
IsExcluded ==
    /\ Fresh
    /\ \E ms \in SeqsUpTo(Meanings, MaxEntries), ch \in {"ch1", "ch2"},
          n \in 0..(MaxListed + 1) :
          LET raw == [c \in {"ch1"} |-> [i \in DOMAIN ms |-> Render(ms[i])]]
              ex == ExcludedSequences_init(raw)
          IN call' = [op |-> "is_excluded", listed |-> ms, channel |-> ch, seq |-> n,
                      raised |-> ex.raised, ret |-> is_excluded_in(ex.map, ch, n)]
    /\ UNCHANGED other_vars

\* _filter_list and _match_any on identifiers and pattern lists
Filter ==
    /\ Fresh
    /\ \E items \in SeqsUpTo({"c1", "c2"}, MaxItems),
          wl \in SeqsUpTo({"*", "c1", "c2"}, MaxPatterns),
          bl \in SeqsUpTo({"*", "c1", "c2"}, MaxPatterns) :
          call' = [op |-> "_filter_list", items |-> items, whitelist |-> wl, blacklist |-> bl,
                   ret |-> _filter_list(items, wl, bl),
                   match |-> [i \in {"c1", "c2"} |-> _match_any(i, wl, bl)]]
    /\ UNCHANGED other_vars

\* PacketFilter(policy, rules).matches(client, channel)
Matches ==
    /\ Fresh
    /\ \E policy \in Policies,
          rules \in SeqsUpTo({"*", "c1"} \X {"*", "ch1"}, MaxRules),
          client \in {"c1", "c2"}, channel \in {"ch1", "ch2"} :
          call' = [op |-> "matches", policy |-> policy, rules |-> rules,
                   client |-> client, channel |-> channel,
                   ret |-> PacketFilter_matches(policy, rules, client, channel)]
    /\ UNCHANGED other_vars

InitConfig == InitRest /\ ~ registry.ok

NextConfig == LoadConfig \/ Construct \/ IsExcluded \/ Filter \/ Matches

SpecConfig == InitConfig /\ [][NextConfig]_vars

-----------------------------------------------------------------------------
(* StateScanner.scan on a topology of two clients of the counterparty, with *)
(* requests that are answered with a 404                                    *)

\* the requests a 404 may answer
ScanPaths ==
    {PathClientConnections(c) : c \in {"c1", "c2"}}
    \cup {PathConnection(c) : c \in {"conn1", "conn2"}}
    \cup {PathChannels(c) : c \in {"conn1", "conn2"}}
    \cup {PathCpChannels(c) : c \in {"cconn1", "cconn2"}}

\* what the endpoints list during the scan, with at most one request
\* answered with a 404
ScanInputs ==
    [exhausted : {FALSE}, malformed : {FALSE},
     not_found : {{}} \cup {{p} : p \in ScanPaths},
     clients : SUBSET {"c1", "c2"}, conns : SUBSET {"conn1", "conn2"},
     chans : SUBSET {"ch1", "ch4"}, cpchans : SUBSET {"cconn1", "cconn2"}]

InitScan ==
    /\ Start /\ twice = FALSE /\ flaky = "clients" /\ registry = [ok |-> FALSE, rest |-> <<>>]
    /\ filters = NoFilters

\* one call of scan() by a healthy cycle
ScanAlone ==
    /\ ~ Throttled
    /\ last_scan' = clock
    /\ rest_expected_chain_id = home_chain_id
    /\ \E topo \in ScanInputs :
          /\ ScanTables(topo)
          /\ call' = [op |-> "scan", topo |-> topo]
    /\ UNCHANGED <<client_vars, net, config_vars, upstream_vars, clock, pc, idx, now,
                   home_healthy, pending_packets, pending_acks, REST_HEALTH, client_gauges,
                   channel_gauges, BACKLOG_UPDATED, iter>>

NextScan == ScanAlone

SpecScan == InitScan /\ [][NextScan]_vars

\* the filter lists of a home chain that names connections and channels: a
\* connection of each side allowed, a home connection denied, a home channel
\* allowed, every channel or a counterparty's channel denied
ScanFilters ==
    {[NoFilters EXCEPT !.whitelist_connections = wc, !.blacklist_connections = bc,
                       !.whitelist_channels = wch, !.blacklist_channels = bch] :
        wc \in {<<>>, <<"conn1", "cconn1">>}, bc \in {<<>>, <<"conn2">>},
        wch \in {<<>>, <<"transfer/ch1">>},
        bch \in {<<>>, <<"*">>, <<"transfer/chA">>, <<"transfer/ch1">>}}

\* the scanner of a home chain with filter lists
InitFilteredScan ==
    /\ Start /\ twice = FALSE /\ flaky = "clients" /\ registry = [ok |-> FALSE, rest |-> <<>>]
    /\ filters \in ScanFilters

SpecFilteredScan == InitFilteredScan /\ [][NextScan]_vars

-----------------------------------------------------------------------------
(* Properties of the pending maps and of the gauges *)

\* the state right after one channel iteration that ran to its end
Iterated == iter.side \in {"home", "cp"} /\ ~ iter.raised

\* a step of IBCExporter that processes one channel to its end
ChannelStep == pc \in {"home", "cp"} /\ iter'.side \in {"home", "cp"} /\ ~ iter'.raised

\* the pending-map key of a gauge's label tuple: chain, connection, port, channel
KeyOf(l) == <<l[1], l[2], l[3], l[4]>>

\* the five gauges of one channel, as set by the channel's iteration
GaugesOf(l) == <<Get(BACKLOG_SIZE, l, -1), Get(BACKLOG_OLDEST_SEQ, l, -1),
                 Get(BACKLOG_OLDEST_TIMESTAMP, l, -1), Get(ACK_OLDEST_SEQ, l, -1),
                 Get(ACK_OLDEST_TIMESTAMP, l, -1)>>

\* C1: the first_seen value of a sequence never changes for as long as the
\* sequence stays in pending_packets[K] (the same for pending_acks[K]): a step
\* that keeps a sequence in a channel's map keeps its value.
C1_FirstSeenStable ==
    [][ /\ \A K \in DOMAIN pending_packets \cap DOMAIN pending_packets' :
             \A s \in DOMAIN pending_packets[K] \cap DOMAIN pending_packets'[K] :
                pending_packets'[K][s] = pending_packets[K][s]
        /\ \A K \in DOMAIN pending_acks \cap DOMAIN pending_acks' :
             \A s \in DOMAIN pending_acks[K] \cap DOMAIN pending_acks'[K] :
                pending_acks'[K][s] = pending_acks[K][s] ]_vars

\* a channel processed in a later cycle keeps a packet and an acknowledgement
\* that were first seen in an earlier cycle, next to a packet first seen now
C1_Witness ==
    /\ Iterated
    /\ \E s \in DOMAIN pending_packets[iter.key] : pending_packets[iter.key][s] < now
    /\ \E s \in DOMAIN pending_packets[iter.key] : pending_packets[iter.key][s] = now
    /\ \E s \in DOMAIN pending_acks[iter.key] : pending_acks[iter.key][s] < now

\* C2: after channel K is processed, the keys of pending_packets[K] are exactly
\* the sequences the packet_commitments listing returned (over all its pages)
\* minus the sequences excluded for the channel.
C2_PendingIsListing ==
    Iterated =>
        DOMAIN pending_packets[iter.key]
            = {s \in iter.listing : ~ is_excluded(iter.key[4], s)}

\* ch1 in a later cycle: the listing holds the excluded sequence 2 and sequence
\* 1, which is new in this cycle (what the map held before is gone or was empty)
C2_Witness ==
    /\ Iterated
    /\ now > Epoch
    /\ iter.key[4] = "ch1"
    /\ iter.listing = {1, 2}
    /\ pending_packets[iter.key] = [s \in {1} |-> now]

\* C3: after channel K is processed, the keys of pending_acks[K] are exactly
\* the sequences the sending side's unreceived_acks query returned in this
\* cycle; that query is about the set the receiving side's acknowledgement query
\* returned, which was asked about the valid sequences of this cycle.
C3_AcksAreUnreceived ==
    Iterated =>
        /\ DOMAIN pending_acks[iter.key] = iter.unreceived
        /\ ("unreceived_acks" \in iter.asked) <=> (iter.acked # {})
        /\ "packet_acknowledgements" \in iter.asked =>
              iter.ack_query = DOMAIN pending_packets[iter.key]

\* a later cycle in which the unreceived set differs from the acknowledged set
\* and one acknowledgement, pending before, has been received meanwhile
C3_Witness ==
    /\ Iterated
    /\ now > Epoch
    /\ iter.acked = {1, 2}
    /\ iter.unreceived = {2}
    /\ pending_acks[iter.key] = [s \in {2} |-> Epoch]

\* C4 (as stated): a sub-query that fails on every endpoint aborts the
\* processing of channel K, and the pending maps and the gauges of K stay as the
\* previous cycle left them.
C4_FailureFreezesChannel ==
    [][ (ChannelStep /\ iter'.failed) =>
          /\ Get(pending_packets', iter'.key, EmptyMap)
                = Get(pending_packets, iter'.key, EmptyMap)
          /\ Get(pending_acks', iter'.key, EmptyMap)
                = Get(pending_acks, iter'.key, EmptyMap)
          /\ \A l \in DOMAIN BACKLOG_SIZE :
                KeyOf(l) = iter'.key => GaugesOf(l)' = GaugesOf(l) ]_vars

\* C5 (as stated): whatever one channel's queries answer, update_metrics goes
\* on to the next channel or to the end of the cycle; the loop is never left.
C5_LoopSurvivesFailure ==
    [][ (pc \in {"home", "cp"}) => (pc' \in {"home", "cp", "finish"}) ]_vars

\* C6: for every channel the oldest-sequence gauges are 0 when the channel's
\* pending map is empty and the smallest key of the map otherwise.
C6_OldestIsMinimum ==
    /\ \A l \in DOMAIN BACKLOG_OLDEST_SEQ :
          LET m == pending_packets[KeyOf(l)]
              g == BACKLOG_OLDEST_SEQ[l]
          IN IF DOMAIN m = {} THEN g = 0
             ELSE g \in DOMAIN m /\ \A s \in DOMAIN m : g <= s
    /\ \A l \in DOMAIN ACK_OLDEST_SEQ :
          LET m == pending_acks[KeyOf(l)]
              g == ACK_OLDEST_SEQ[l]
          IN IF DOMAIN m = {} THEN g = 0
             ELSE g \in DOMAIN m /\ \A s \in DOMAIN m : g <= s
    /\ \A K \in DOMAIN pending_packets : \E l \in DOMAIN BACKLOG_OLDEST_SEQ : KeyOf(l) = K
    /\ \A K \in DOMAIN pending_acks : \E l \in DOMAIN ACK_OLDEST_SEQ : KeyOf(l) = K

\* a finished cycle with a channel whose map holds two packets, of which the
\* later one awaits its acknowledgement: the gauges show 1 and 2
C6_Witness ==
    /\ pc = "sleep"
    /\ \E l \in DOMAIN BACKLOG_OLDEST_SEQ :
          /\ DOMAIN pending_packets[KeyOf(l)] = {1, 2}
          /\ BACKLOG_OLDEST_SEQ[l] = 1
          /\ DOMAIN pending_acks[KeyOf(l)] = {2}
          /\ ACK_OLDEST_SEQ[l] = 2

\* the end of a cycle that met the answers of the cycle before it
SecondRunDone == fixed /\ pc = "sleep"

ReceiverKnown == iter.receiver = home_chain_id \/ iter.receiver \in DOMAIN rest_by_chain

\* C8: when no valid sequence is left for channel K, or no REST client is
\* configured for the receiving chain, neither the acknowledgement query nor
\* the unreceived_acks query is issued and pending_acks[K] is empty.
C8_NoAcksWithoutValid ==
    (Iterated /\ (DOMAIN pending_packets[iter.key] = {} \/ ~ ReceiverKnown)) =>
        /\ iter.asked = {"packet_commitments"}
        /\ pending_acks[iter.key] = EmptyMap

\* a home channel with pending packets whose counterparty chain has no REST
\* client, in a later cycle
C8_Witness ==
    /\ Iterated
    /\ now > Epoch
    /\ ~ ReceiverKnown
    /\ DOMAIN pending_packets[iter.key] = {1, 2}

\* the keys of the two channel tables of the last scan
TableKeys ==
    {<<home_chain_id, channels[i][1], channels[i][2], channels[i][3]>> : i \in DOMAIN channels}
    \cup {<<cp_channels[i][1], cp_channels[i][2], cp_channels[i][3], cp_channels[i][4]>>
            : i \in DOMAIN cp_channels}

\* C9 (as stated): after every completed scrape cycle the key set of each
\* pending map is the set of keys of the channel tables of the last scan.
C9_KeysAreTableKeys ==
    pc = "sleep" =>
        /\ DOMAIN pending_packets = TableKeys
        /\ DOMAIN pending_acks = TableKeys

\* C10 (as stated): scan() is a no-op when less than state_refresh_interval has
\* passed since the previous scan that completed, and a full rebuild in every
\* other case, also after an attempt that did not complete.
C10_ThrottleSinceSuccess ==
    [][ (pc = "scan" /\ pc' = "clients") =>
          IF clock - scan_log.last_complete < state_refresh_interval
          THEN scan_log'.did = "throttled" /\ UNCHANGED scanner_vars
          ELSE scan_log'.did = "rebuilt" ]_vars

-----------------------------------------------------------------------------
(* Properties of the scan and of the cycle's frame *)

\* C11 (as stated): scan() replaces the tables atomically: after a scan() call,
\* also one that an exception interrupts, the tables are all those of the
\* previous scan or all those of a scan that ran to its end.
C11_TablesSwappedAtomically ==
    [][ (pc = "scan" /\ scan_log'.did # "rebuilt") => Tables' = Tables ]_vars

\* C12: in a cycle where the home client's health() returns false,
\* update_metrics writes the rest_health gauges and returns: no scan, no change
\* of a pending map, no client, backlog or last-update-time gauge written.
C12_UnhealthyHomeSkipsCycle ==
    [][ (pc = "idle" /\ ~ home_healthy') =>
          /\ pc' = "sleep"
          /\ REST_HEALTH'[<<home_chain_id, home_endpoint>>] = 0
          /\ \A c \in DOMAIN rest_by_chain : <<c, rest_by_chain[c]>> \in DOMAIN REST_HEALTH'
          /\ UNCHANGED <<scanner_vars, scan_log, pending_packets, pending_acks,
                         client_gauges, channel_gauges, BACKLOG_UPDATED>> ]_vars

\* a skipped cycle that follows a cycle which left pending packets and an
\* update time behind
C12_Witness ==
    /\ pc = "sleep"
    /\ ~ home_healthy
    /\ now = clock
    /\ now > Epoch
    /\ REST_HEALTH[<<home_chain_id, home_endpoint>>] = 0
    /\ \E K \in DOMAIN pending_packets : pending_packets[K] # EmptyMap
    /\ \E c \in DOMAIN BACKLOG_UPDATED : BACKLOG_UPDATED[c] < now

\* the endpoint label of a chain's rest_health gauge
EndpointOf(c) == IF c = home_chain_id THEN home_endpoint ELSE rest_by_chain[c]

\* C13 (as stated): a chain's ibc_backlog_last_update_time_seconds gauge is set
\* to the cycle's now only in a cycle in which the chain's health() returned
\* true; for an unreachable counterparty the gauge keeps its value.
C13_UpdatedOnlyWhenReachable ==
    [][ \A c \in DOMAIN BACKLOG_UPDATED' :
          Get(BACKLOG_UPDATED, c, -1) # BACKLOG_UPDATED'[c] =>
             /\ BACKLOG_UPDATED'[c] = now
             /\ REST_HEALTH[<<c, EndpointOf(c)>>] = 1 ]_vars

-----------------------------------------------------------------------------
(* Properties of RESTClient *)

\* a step that is one health() call of update_metrics on the home client
HomeProbeStep == call'.op = "health" /\ net' = net

\* a step that is one query() call on the home client
HomeQueryStep == call'.op = "query" /\ net' = net

\* [self.primary] + self.fallbacks once the fallbacks are loaded
EndpointList == <<primary>> \o _load_fallbacks(registry)

\* an endpoint that passes the probe and answers requests
Healthy(e) == net[e] = "ok"

\* C14 (as stated): when the active endpoint fails its probe and a fallback
\* passes it, then after update_metrics the rest_health gauge of the failed
\* endpoint is 0, the gauge of the fallback is 1, the fallback is active, and a
\* later query goes to the active endpoint first.
C14_FailoverShownInGauges ==
    [][ /\ (HomeProbeStep /\ ~ ProbeOk(net[endpoint]) /\ call'.ret /\ endpoint' # endpoint) =>
             /\ ProbeOk(net[endpoint'])
             /\ Get(REST_HEALTH', <<home_chain_id, endpoint'>>, -1) = 1
             /\ Get(REST_HEALTH', <<home_chain_id, endpoint>>, -1) = 0
        /\ HomeQueryStep => Head(call'.sent) = endpoint ]_vars

\* C15 (as stated): when the request to the active endpoint fails and another
\* known endpoint is healthy, query() returns a healthy endpoint's body; on
\* return that endpoint is active and the failed one is marked unhealthy.
C15_QueryFailsOver ==
    [][ (/\ HomeQueryStep
         /\ ~ RequestOk(net[endpoint])
         /\ \E e \in Range(EndpointList) \ {endpoint} : Healthy(e)) =>
          /\ call'.ret.kind = "body"
          /\ call'.ret.from = endpoint'
          /\ Healthy(endpoint')
          /\ endpoint \in unhealthy' ]_vars

\* C15 (amended): the same, when the other healthy endpoint is not marked
\* unhealthy at the time of the call.
C15_QueryFailsOverToUnmarked ==
    [][ (/\ HomeQueryStep
         /\ ~ RequestOk(net[endpoint])
         /\ \E e \in Range(EndpointList) \ ({endpoint} \cup unhealthy) : Healthy(e)) =>
          /\ call'.ret.kind = "body"
          /\ call'.ret.from = endpoint'
          /\ Healthy(endpoint')
          /\ endpoint' # endpoint
          /\ Head(call'.sent) = endpoint
          /\ endpoint \in unhealthy' ]_vars

\* a new client whose first request fails on the primary and is answered by
\* the fallback the registry lists
C15_Witness ==
    /\ call.op = "query"
    /\ call.sent = <<primary, "http://f1">>
    /\ call.ret = Body("http://f1")
    /\ endpoint = "http://f1"
    /\ unhealthy = {primary}
    /\ net[primary] = "down"
    /\ net["http://f1"] = "ok"

\* C16: query() makes at most as many requests as there are known endpoints
\* and returns the empty object when every request failed, also when the
\* probes keep succeeding; it returns a body or the empty object, nothing else.
C16_QueryBounded ==
    [][ HomeQueryStep =>
          /\ Len(call'.sent) <= 1 + Len(fallbacks')
          /\ call'.ret.kind \in {"body", "empty"}
          /\ (\A i \in DOMAIN call'.sent : ~ RequestOk(net[call'.sent[i]])) <=>
                (call'.ret = EmptyBody)
          /\ call'.ret.kind = "body" =>
                call'.ret.from = call'.sent[Len(call'.sent)] ]_vars

\* three endpoints that all pass the probe and fail the request: three
\* requests, one to each, and the empty object
C16_Witness ==
    /\ call.op = "query"
    /\ call.ret = EmptyBody
    /\ call.sent = <<primary, "http://f1", "http://f2">>
    /\ \A e \in Range(EndpointList) : net[e] = "probe_only"

\* C17 (as stated): a 404 reaches the caller of query() as a failure apart from
\* the empty object, marks no endpoint unhealthy and triggers no failover.
C17_NotFoundIsDistinct ==
    [][ (HomeQueryStep /\ net[endpoint] = "not_found") =>
          /\ call'.ret.kind = "not_found"
          /\ unhealthy' = unhealthy
          /\ endpoint' = endpoint ]_vars

\* C18 (as stated): when every known endpoint is marked unhealthy at the start
\* of health(), also with an address listed twice, the marks are reset and the
\* endpoints are probed again in that call, from the primary on.
C18_AllMarkedIsReset ==
    [][ (HomeProbeStep /\ Range(EndpointList) \subseteq unhealthy) =>
          /\ call'.probed # <<>>
          /\ Head(call'.probed) = primary ]_vars

\* the positions of EndpointList up to the one health() stopped at
Visited == IF call'.ret
           THEN 1..(CHOOSE i \in DOMAIN EndpointList :
                      /\ EndpointList[i] = call'.probed[Len(call'.probed)]
                      /\ \A j \in 1..(i - 1) : EndpointList[j] # EndpointList[i])
           ELSE DOMAIN EndpointList

\* C19: health() probes the primary, then the fallbacks in list order, skipping
\* the marked ones; it returns true exactly when a probe succeeds, and then the
\* first endpoint in that order whose probe succeeded is active; it returns
\* false and leaves the active endpoint alone when every probe fails.
C19_HealthPicksFirstSuccess ==
    [][ HomeProbeStep =>
          LET probed == call'.probed
          IN /\ call'.ret <=> (\E i \in DOMAIN probed : ProbeOk(net[probed[i]]))
             /\ call'.ret =>
                   /\ endpoint' = probed[Len(probed)]
                   /\ \A i \in 1..(Len(probed) - 1) : ~ ProbeOk(net[probed[i]])
             /\ ~ call'.ret => endpoint' = endpoint
             \* the probes follow the list's order, each endpoint at most once
             /\ \A i, j \in DOMAIN probed :
                   i < j => \E a, b \in DOMAIN EndpointList :
                               a < b /\ EndpointList[a] = probed[i] /\ EndpointList[b] = probed[j]
             \* what was passed over was marked, what was probed was not
             /\ \A a \in Visited :
                   EndpointList[a] \in Range(probed) \/ EndpointList[a] \in unhealthy
             /\ \A i \in DOMAIN probed :
                   probed[i] \notin unhealthy \/ Range(EndpointList) \subseteq unhealthy ]_vars

\* the primary is marked and skipped, the first fallback fails its probe, the
\* second passes and becomes the active endpoint
C19_Witness ==
    /\ call.op = "health"
    /\ call.ret
    /\ call.probed = <<"http://f1", "http://f2">>
    /\ endpoint = "http://f2"
    /\ unhealthy = {primary, "http://f1"}
    /\ net[primary] = "ok"

\* C20: an endpoint whose node_info names another network is marked unhealthy
\* and not made the active endpoint by that call; when it is the only endpoint
\* health() returns false, the home chain's gauge is 0 and the cycle is skipped.
C20_MismatchIsUnhealthy ==
    [][ HomeProbeStep =>
          /\ \A i \in DOMAIN call'.probed :
                net[call'.probed[i]] = "mismatch" =>
                   /\ call'.probed[i] \in unhealthy'
                   /\ endpoint' = call'.probed[i] => endpoint = call'.probed[i] /\ ~ call'.ret
          /\ (EndpointList = <<primary>> /\ net[primary] = "mismatch") =>
                /\ ~ call'.ret
                /\ REST_HEALTH'[<<home_chain_id, primary>>] = 0
                /\ ~ home_healthy'
                /\ pc' = "sleep" ]_vars

\* the only endpoint is on another network: probed, marked, the gauge at 0 and
\* the cycle skipped
C20_Witness ==
    /\ call.op = "health"
    /\ EndpointList = <<primary>>
    /\ net[primary] = "mismatch"
    /\ call.probed = <<primary>>
    /\ unhealthy = {primary}
    /\ ~ home_healthy
    /\ pc = "sleep"
    /\ REST_HEALTH = [l \in {<<home_chain_id, primary>>} |-> 0]

\* C21: over any sequence of health() and query() calls on one client the
\* chain-registry document is requested at most once, by the first health()
\* call (made by the caller or by query() after a failed request), whether the
\* request succeeds or fails, and the fallback list never changes after that
\* call
C21_RegistryFetchedOnce ==
    [][ (call'.op \in {"health", "query"} /\ net' = net) =>
            /\ call'.fetches <= 1
            /\ (call'.op = "health" /\ ~ loaded) => call'.fetches = 1
            /\ call'.fetches = 1 => (~ loaded /\ loaded')
            /\ loaded => (loaded' /\ call'.fetches = 0 /\ fallbacks' = fallbacks)
            /\ ~ loaded' => fallbacks' = <<>> ]_vars

\* a second health() call on a client whose registry request had failed, and
\* one on a client whose registry request had listed a fallback
C21_Witness ==
    /\ call.op = "health"
    /\ call.fetches = 0
    /\ loaded
    /\ \/ ~ registry.ok
       \/ fallbacks # <<>>

\* C22: with rests = [u0, u1] configured for the home chain, a failing u0 and
\* a registry that supplies no endpoint, health() and query() fail over to u1
C22_ConfiguredRestsAreFallbacks ==
    [][ (/\ call'.op \in {"health", "query"}
         /\ net' = net
         /\ _load_fallbacks(registry) = <<>>
         /\ net[home_rests[1]] = "down"
         /\ Healthy(home_rests[2]))
        => /\ endpoint' = home_rests[2]
           /\ call'.op = "health" => call'.ret
           /\ call'.op = "query" => call'.ret = Body(home_rests[2]) ]_vars

-----------------------------------------------------------------------------
(* Properties of the configuration *)

\* the number of entries of the file that set home_chain = true
HomeCount(chains) ==
    Cardinality({i \in DOMAIN chains :
                    "home_chain" \in DOMAIN chains[i] /\ chains[i].home_chain})

\* C23: loading succeeds only when exactly one configured chain has
\* home_chain = true, and Config.home_chain is then that chain; zero home
\* chains, and two or more, are rejected with an error
C23_ExactlyOneHome ==
    call.op = "Config" =>
        /\ HomeCount(call.chains) # 1 => call.ret.raised
        /\ ~ call.ret.raised =>
              /\ HomeCount(call.chains) = 1
              /\ \E i \in DOMAIN call.chains :
                    /\ "home_chain" \in DOMAIN call.chains[i]
                    /\ call.chains[i].home_chain
                    /\ call.ret.home_chain = call.ret.chains[i]
                    /\ call.ret.home_chain.chain_id = call.chains[i].chain_id
                    /\ call.ret.home_chain.rests = call.chains[i].rests

\* a file of three chains, the second of them the home chain, was loaded
C23_Witness ==
    /\ call.op = "Config"
    /\ ~ call.ret.raised
    /\ Len(call.chains) = 3
    /\ call.ret.home_chain = call.ret.chains[2]
    /\ call.ret.home_chain # call.ret.chains[1]

\* what a listed entry excludes
Means(m, n) == IF m.kind = "range" THEN m.a <= m.b /\ m.a <= n /\ n <= m.b ELSE n = m.a

\* C24: is_excluded(channel, n) is true exactly when n is a listed singleton,
\* written as an integer or as a numeric string, or lies in [a, b] for a
\* listed "a-b" with a <= b; it is false for every other n and for a channel
\* without an entry
C24_ExcludedIsListed ==
    call.op = "is_excluded" =>
        /\ ~ call.raised
        /\ call.ret <=> /\ call.channel = "ch1"
                        /\ \E i \in DOMAIN call.listed : Means(call.listed[i], call.seq)

\* a sequence strictly inside a listed range that ends at a two-digit number,
\* next to a singleton written as a string
C24_Witness ==
    /\ call.op = "is_excluded"
    /\ call.ret
    /\ call.channel = "ch1"
    /\ Len(call.listed) = 2
    /\ call.listed[1] = [kind |-> "str", a |-> 1, b |-> 0]
    /\ call.listed[2] = [kind |-> "range", a |-> 3, b |-> MaxListed]
    /\ call.seq = MaxListed - 1

Matching(item, pats) == \E i \in DOMAIN pats : fnmatch(item, pats[i])

Kept(item, wl, bl) ==
    \/ wl # <<>> /\ Matching(item, wl)
    \/ wl = <<>> /\ ~ Matching(item, bl)

\* C25: the identifier filter keeps an identifier exactly when the whitelist
\* is non-empty and matches it, or the whitelist is empty and no blacklist
\* pattern matches it; with a non-empty whitelist the blacklist has no effect
C25_FilterSemantics ==
    call.op = "_filter_list" =>
        /\ call.ret = SelectSeq(call.items,
                                LAMBDA i : Kept(i, call.whitelist, call.blacklist))
        /\ \A i \in DOMAIN call.match :
              call.match[i] = Kept(i, call.whitelist, call.blacklist)
        /\ call.whitelist # <<>> =>
              call.ret = SelectSeq(call.items, LAMBDA i : Matching(i, call.whitelist))

\* an identifier that both lists match was kept, one that neither matches
\* was dropped
C25_Witness ==
    /\ call.op = "_filter_list"
    /\ call.items = <<"c1", "c2">>
    /\ call.whitelist = <<"c1">>
    /\ call.blacklist = <<"c1">>
    /\ call.ret = <<"c1">>

\* C29: constructing the exporter fails exactly when the home chain has no
\* REST URL; a counterparty without REST URLs is only left out of
\* rest_by_chain.  After construction the scanner's counterparty chain ids are
\* all configured non-home chains and rest_by_chain has one client, on the
\* chain's first URL, for exactly each non-home chain that has a REST URL
C29_OnlyHomeRestsAreFatal ==
    call.op = "IBCExporter" =>
        LET chains == call.cfg.chains
            nonhome == {i \in DOMAIN chains : ~ chains[i].home_chain}
        IN /\ call.ret.raised <=> call.cfg.home_chain.rests = <<>>
           /\ ~ call.ret.raised =>
                 /\ call.ret.counterparty_chain_ids \subseteq
                        {chains[i].chain_id : i \in nonhome}
                 /\ DOMAIN call.ret.rest_by_chain =
                        {chains[i].chain_id : i \in {j \in nonhome : chains[j].rests # <<>>}}
                 /\ \A id \in DOMAIN call.ret.rest_by_chain :
                       \E i \in nonhome : /\ chains[i].chain_id = id
                                          /\ chains[i].rests # <<>>
                                          /\ call.ret.rest_by_chain[id] = chains[i].rests[1]
                 /\ call.ret.home_client = call.cfg.home_chain.rests[1]

\* an exporter was built for a home chain and two counterparties, one of
\* them without REST URLs
C29_Witness ==
    /\ call.op = "IBCExporter"
    /\ ~ call.ret.raised
    /\ Len(call.cfg.chains) = 3
    /\ call.cfg.chains[1] = [chain_id |-> "h", rests |-> <<"http://h">>, home_chain |-> TRUE]
    /\ call.cfg.chains[2] = [chain_id |-> "a", rests |-> <<>>, home_chain |-> FALSE]
    /\ ~ call.cfg.chains[3].home_chain
    /\ call.cfg.chains[3].rests # <<>>
    /\ DOMAIN call.ret.rest_by_chain = {call.cfg.chains[3].chain_id}

\* C30: with policy 'allow' matches() is true exactly when some rule matches
\* the client and the channel; with policy 'deny' it is false exactly when
\* some rule matches both, and true otherwise
C30_PacketFilterPolicy ==
    call.op = "matches" =>
        LET some == \E i \in DOMAIN call.rules :
                        /\ fnmatch(call.client, call.rules[i][1])
                        /\ fnmatch(call.channel, call.rules[i][2])
        IN /\ call.policy = "allow" => (call.ret <=> some)
           /\ call.policy = "deny" => (call.ret <=> ~ some)

\* under 'allow', a first rule that matches the client alone and a second
\* that matches both; under 'deny', a rule that matches the client alone
C30_Witness ==
    /\ call.op = "matches"
    /\ call.client = "c1"
    /\ call.channel = "ch2"
    /\ \/ /\ call.policy = "allow"
          /\ call.rules = << <<"c1", "ch1">>, <<"*", "*">> >>
          /\ call.ret
       \/ /\ call.policy = "deny"
          /\ call.rules = << <<"c1", "ch1">> >>
          /\ call.ret

-----------------------------------------------------------------------------
(* Properties of the scanned topology *)

\* scan() ran to its end and rebuilt the tables
Completed == scan_log.did = "rebuilt"

\* the configured chains that are not the home chain
ConfiguredCounterparties == Range(cp_chain_ids)

\* the identifiers that appear in the scanner's tables
ListedClients ==
    Range(clients) \cup DOMAIN client_chain_map \cup DOMAIN client_counterparty_client_ids
    \cup {connection_client_map[c] : c \in DOMAIN connection_client_map}
ListedConnections ==
    Range(connections) \cup DOMAIN connection_client_map
    \cup {channels[i][1] : i \in DOMAIN channels}
ListedCpConnections ==
    UNION {Range(cp_connections[k]) : k \in DOMAIN cp_connections}
    \cup {cp_channels[i][2] : i \in DOMAIN cp_channels}
ListedChains ==
    {channels[i][6] : i \in DOMAIN channels} \cup {cp_channels[i][1] : i \in DOMAIN cp_channels}
    \cup {client_chain_map[c] : c \in DOMAIN client_chain_map} \cup DOMAIN cp_connections

\* C26: after every completed scan every connection of `connections` belongs
\* to a client of `clients`, every channel of `channels` is on a connection of
\* `connections`, every counterparty chain id of the tables is a configured
\* non-home chain, and the client of the unconfigured chain z, its connection
\* and its channel are in no table
C26_TopologyClosed ==
    Completed =>
        /\ \A i \in DOMAIN connections :
              /\ connections[i] \in DOMAIN connection_client_map
              /\ connection_client_map[connections[i]] \in Range(clients)
        /\ \A i \in DOMAIN channels : channels[i][1] \in Range(connections)
        /\ ListedChains \subseteq ConfiguredCounterparties
        /\ "c3" \notin ListedClients
        /\ "conn3" \notin ListedConnections
        /\ "cconn3" \notin ListedCpConnections
        /\ \A i \in DOMAIN channels : channels[i][3] # "ch3"

\* a scan that found both clients of the counterparty, their connections and
\* channels on both sides, next to the client of the chain z
C26_Witness ==
    /\ Completed
    /\ call.op = "scan"
    /\ clients = <<"c1", "c2">>
    /\ connections = <<"conn1", "conn2">>
    /\ Len(channels) = 2
    /\ Len(cp_channels) = 2

\* C27: after scan() `clients` lists only clients for which a connection was
\* found; a client whose client_connections listing is empty, or answered
\* with a 404, is not listed
C27_ClientsHaveConnections ==
    Completed =>
        \A i \in DOMAIN clients :
            \E c \in Range(connections) : connection_client_map[c] = clients[i]

\* what a scan finds when a 404 counts for an empty answer: the connections
\* of the listed clients, their channels, the counterparty's connections and
\* their channels
FoundConnections ==
    {UpClientConn[c] : c \in {d \in call.topo.clients :
                                 /\ UpClientConn[d] \in call.topo.conns
                                 /\ PathClientConnections(d) \notin call.topo.not_found}}
FoundChannels ==
    {<<c, ch>> \in FoundConnections \X call.topo.chans :
        /\ PathChannels(c) \notin call.topo.not_found
        /\ \E k \in DOMAIN UpConnChannels[c] : UpConnChannels[c][k].channel_id = ch}
FoundCpConnections ==
    {UpConnCounterparty[c].connection_id :
        c \in {d \in FoundConnections :
                 /\ PathConnection(d) \notin call.topo.not_found
                 /\ UpClientChain[connection_client_map[d]] \in DOMAIN rest_by_chain}}
FoundCpChannels ==
    {c \in FoundCpConnections \cap call.topo.cpchans :
        PathCpChannels(c) \notin call.topo.not_found}

\* C28: a 404 answer to a client_connections, connection or channels request
\* of scan() counts for an empty answer: scan() runs to its end, the client or
\* connection asked about adds no connections or channels, and the other
\* clients and connections are scanned as they are listed
C28_NotFoundIsEmpty ==
    (call.op = "scan" /\ call.topo.not_found # {}) =>
        /\ Completed
        /\ Range(connections) = FoundConnections
        /\ {<<channels[i][1], channels[i][3]>> : i \in DOMAIN channels} = FoundChannels
        /\ UNION {Range(cp_connections[k]) : k \in DOMAIN cp_connections} = FoundCpConnections
        /\ {cp_channels[i][2] : i \in DOMAIN cp_channels} = FoundCpChannels

\* the connections of the first client answered with a 404: the second
\* client's connection and its channels on both sides were scanned
C28_Witness ==
    /\ call.op = "scan"
    /\ call.topo.not_found = {PathClientConnections("c1")}
    /\ call.topo.conns = {"conn1", "conn2"}
    /\ connections = <<"conn2">>
    /\ Len(channels) = 1
    /\ channels[1][3] = "ch4"
    /\ Len(cp_channels) = 1
    /\ cp_channels[1][2] = "cconn2"


-----------------------------------------------------------------------------
(* The helpers of IBCExporter and StateScanner that page and batch, each
   against a server of its endpoint *)

\* the pages a listing has at most
MaxPages == 3

\* BATCH, line 77: the sequences one request carries at most (100 in the
\* program; the helpers are followed with a smaller value and short lists)
BATCH == 2

\* the sequences of a list handed to a batching helper at most
MaxBatchInput == 5

\* the continuation keys a server hands out (base64 text) and the lists of
\* sequences one page may hold
PageKeys == {"ab", "a+b", "a/b"}
PageLists == {<<>>, <<1>>, <<2>>, <<1, 2>>}

\* a continuation key put into the query string as it is
QuoteNothing(key) == key

\* urllib.parse.quote_plus on a continuation key
quote_plus(key) ==
    CASE key = "a+b" -> "a%2Bb"
      [] key = "a/b" -> "a%2Fb"
      [] OTHER -> key

\* the server's reading of a query-string value
Unquote(value) ==
    CASE value = "a%2Bb" -> "a+b"
      [] value = "a%2Fb" -> "a/b"
      [] value = "a+b" -> "a b"
      [] OTHER -> value

\* the last page of a listing: a null next_key, an empty one, a pagination
\* object without next_key, no pagination object
LastPages(l) ==
    {CommitPage(l, NoKey), CommitPage(l, ""),
     [commitments |-> CommitPage(l, NoKey).commitments, pagination |-> [total |-> "0"]],
     [commitments |-> CommitPage(l, NoKey).commitments]}

\* the listings of N pages: each of the first N-1 pages carries a key of its
\* own, the last page carries none
Listings(N) ==
    {pages \in [1..N -> UNION {LastPages(l) : l \in PageLists}
                          \cup {CommitPage(l, k) : l \in PageLists, k \in PageKeys}] :
        /\ \A i \in 1..(N - 1) : pages[i] \in {CommitPage(l, k) : l \in PageLists, k \in PageKeys}
        /\ pages[N] \in UNION {LastPages(l) : l \in PageLists}
        /\ \A i, j \in 1..(N - 1) :
              i # j => pages[i].pagination.next_key # pages[j].pagination.next_key}

\* the server of a listing: the first page for a request without a key, the
\* page after the one that carried the key for a request with it, and an error
\* (for which query() returns {}) for a key it never handed out
Serve(pages, key) ==
    IF key = NoKey THEN pages[1]
    ELSE LET carried == {i \in 1..(Len(pages) - 1) :
                            pages[i].pagination.next_key = Unquote(key)}
         IN IF carried = {} THEN Exhausted ELSE pages[(CHOOSE i \in carried : TRUE) + 1]

\* (res.get("pagination") or {}).get("next_key")
NextKeyOf(res) ==
    IF "pagination" \notin DOMAIN res THEN NoKey
    ELSE IF "next_key" \notin DOMAIN res.pagination THEN NoKey
    ELSE res.pagination.next_key

\* _query_all_list, lines 128-135: the loop from the request that carries
\* next_key on; requests lists the keys the requests carried
RECURSIVE PagedLoop(_, _, _, _)
PagedLoop(pages, next_key, list_key, requests) ==
    LET carried == IF next_key \in {NoKey, ""} THEN NoKey ELSE quote_plus(next_key)
        res == query(Serve(pages, carried))
        items == ListOf(res, list_key)
        nk == NextKeyOf(res)
        reqs == Append(requests, carried)
    IN IF nk \in {NoKey, ""}
       THEN [items |-> items, requests |-> reqs]
       ELSE LET more == PagedLoop(pages, nk, list_key, reqs)
            IN [more EXCEPT !.items = items \o @]

\* StateScanner._query_all: the same loop on the home client (its except
\* clause is never entered: query() raises no HTTPError)
_query_all(pages, list_key) == PagedLoop(pages, NoKey, list_key, <<>>)

\* a range that stops before a last batch that is not full
NumBatchesFull(n) == n \div BATCH

\* range(0, len(seqs), BATCH): the number of its elements
NumBatches(n) == (n + BATCH - 1) \div BATCH

\* _chunked: seqs[i:i+BATCH] for i in range(0, len(seqs), BATCH)
_chunked(seqs) ==
    [k \in 1..NumBatches(Len(seqs)) |->
        SubSeq(seqs, (k - 1) * BATCH + 1, Min({k * BATCH, Len(seqs)}))]

\* the sequences the lists and sets handed to the batching helpers hold
BatchSeqs == 1..3

\* a server of packet_acknowledgements or unreceived_acks: of the sequences a
\* request is about it returns those in its set, and the sequences of extra
\* whatever the request
Servers == [known : SUBSET BatchSeqs, extra : {{}, {9}}]

AckAnswer(srv, batch) ==
    LET l == SortedSeq((Range(batch) \cap srv.known) \cup srv.extra)
    IN [acknowledgements |-> [i \in DOMAIN l |-> [sequence |-> str(l[i])]]]

UnreceivedAnswer(srv, batch) ==
    LET l == SortedSeq((Range(batch) \cap srv.known) \cup srv.extra)
    IN [sequences |-> [i \in DOMAIN l |-> str(l[i])]]

\* _filtered_ack_sequences, lines 142-149: the loop over the batches from the
\* k-th on, one request each
RECURSIVE AcksInBatches(_, _, _)
AcksInBatches(batches, k, srv) ==
    IF k > Len(batches) THEN [requests |-> <<>>, responses |-> <<>>, ret |-> {}]
    ELSE LET res == AckAnswer(srv, batches[k])
             more == AcksInBatches(batches, k + 1, srv)
         IN [requests |-> <<batches[k]>> \o more.requests,
             responses |-> <<res>> \o more.responses,
             ret |-> _filtered_ack_sequences(res, batches[k]) \cup more.ret]

\* _unreceived_acks, lines 158-165: the loop over the batches from the k-th on
RECURSIVE UnreceivedInBatches(_, _, _)
UnreceivedInBatches(batches, k, srv) ==
    IF k > Len(batches) THEN [requests |-> <<>>, responses |-> <<>>, ret |-> {}]
    ELSE LET res == UnreceivedAnswer(srv, batches[k])
             more == UnreceivedInBatches(batches, k + 1, srv)
         IN [requests |-> <<batches[k]>> \o more.requests,
             responses |-> <<res>> \o more.responses,
             ret |-> _unreceived_acks(res, Range(batches[k])) \cup more.ret]

\* _query_all_list and _query_all on a listing of N pages
Paginate ==
    /\ Fresh
    /\ \E N \in 1..MaxPages : \E pages \in Listings(N) :
          LET r == PagedLoop(pages, NoKey, "commitments", <<>>)
          IN call' = [op |-> "_query_all_list", pages |-> pages, requests |-> r.requests,
                      ret |-> r.items, scanner |-> _query_all(pages, "commitments").items]
    /\ UNCHANGED other_vars

\* _filtered_ack_sequences on a list of sequences
FilteredAcks ==
    /\ Fresh
    /\ \E seqs \in SeqsUpTo(BatchSeqs, MaxBatchInput), srv \in Servers :
          LET batches == _chunked(seqs)
              r == AcksInBatches(batches, 1, srv)
          IN call' = [op |-> "_filtered_ack_sequences", seqs |-> seqs, batches |-> batches,
                      requests |-> r.requests, responses |-> r.responses, ret |-> r.ret]
    /\ UNCHANGED other_vars

\* _unreceived_acks on a set of sequences
UnreceivedAcks ==
    /\ Fresh
    /\ \E ack_seqs \in SUBSET BatchSeqs, srv \in Servers :
          LET seqs == SetToSeq(ack_seqs)
              batches == _chunked(seqs)
              r == UnreceivedInBatches(batches, 1, srv)
          IN call' = [op |-> "_unreceived_acks", seqs |-> seqs, batches |-> batches,
                      requests |-> r.requests, responses |-> r.responses, ret |-> r.ret]
    /\ UNCHANGED other_vars

InitHelpers == InitRest /\ ~ registry.ok

NextHelpers == Paginate \/ FilteredAcks \/ UnreceivedAcks

SpecHelpers == InitHelpers /\ [][NextHelpers]_vars

-----------------------------------------------------------------------------
(* Properties of one cycle of update_metrics *)

\* the valid sequences of the channel step just taken: its listing without the
\* sequences excluded for its channel
FreshValid == {s \in iter'.listing : ~ is_excluded(iter'.key[4], s)}

\* C31: within one cycle and for one channel K, pending_packets[K] is updated
\* before pending_acks[K] (when the acknowledgement query raises, the packets of
\* K are those of this cycle and the acknowledgements of K are untouched), and
\* the acknowledgement query carries exactly the valid sequences of this cycle's
\* listing, which are the keys of the updated pending_packets[K].
C31_AcksUseFreshValid ==
    [][ (pc \in {"home", "cp"} /\ "ack_query" \in DOMAIN iter') =>
          LET K == iter'.key
          IN /\ (iter'.raised \/ "packet_acknowledgements" \in iter'.asked) =>
                   /\ iter'.ack_query = FreshValid
                   /\ iter'.ack_query # {}
                   /\ \A s \in iter'.ack_query : ~ is_excluded(K[4], s)
             /\ DOMAIN pending_packets'[K] = FreshValid
             /\ iter'.raised => pending_acks' = pending_acks
             /\ Get(pending_acks', K, EmptyMap) # Get(pending_acks, K, EmptyMap) =>
                   /\ ~ iter'.raised
                   /\ \A s \in DOMAIN pending_packets'[K] \ DOMAIN Get(pending_packets, K, EmptyMap) :
                         pending_packets'[K][s] = now ]_vars

\* ch1 in a later cycle: the listing holds sequence 1 and the excluded sequence
\* 2, the acknowledgement query about sequence 1 raises, and K keeps the
\* acknowledgement of the cycle before next to the packets of this cycle
C31_Witness ==
    /\ pc = "crashed"
    /\ "ack_query" \in DOMAIN iter
    /\ now > Epoch
    /\ iter.key[4] = "ch1"
    /\ iter.listing = {1, 2}
    /\ iter.ack_query = {1}
    /\ pending_packets[iter.key] = [s \in {1} |-> Epoch]
    /\ pending_acks[iter.key] = [s \in {1} |-> Epoch]

\* C32: now is read once, at the start of update_metrics; every entry a step
\* inserts into pending_packets or pending_acks, for a home or a counterparty
\* channel, gets that value, and every first_seen stored in either map is at
\* most the now of the latest cycle.
C32_FirstSeenIsNow ==
    [][ /\ (now' # now) => (pc = "idle" /\ now' = clock /\ now' >= now)
        /\ \A K \in DOMAIN pending_packets' : \A s \in DOMAIN pending_packets'[K] :
              /\ pending_packets'[K][s] <= now'
              /\ (K \notin DOMAIN pending_packets \/ s \notin DOMAIN pending_packets[K]) =>
                    (pending_packets'[K][s] = now /\ now' = now)
        /\ \A K \in DOMAIN pending_acks' : \A s \in DOMAIN pending_acks'[K] :
              /\ pending_acks'[K][s] <= now'
              /\ (K \notin DOMAIN pending_acks \/ s \notin DOMAIN pending_acks[K]) =>
                    (pending_acks'[K][s] = now /\ now' = now) ]_vars

\* a counterparty channel processed in a later cycle: its map holds a packet of
\* an earlier cycle next to a packet and an acknowledgement inserted in this cycle
C32_Witness ==
    /\ Iterated
    /\ iter.side = "cp"
    /\ \E s \in DOMAIN pending_packets[iter.key] : pending_packets[iter.key][s] < now
    /\ \E s \in DOMAIN pending_packets[iter.key] : pending_packets[iter.key][s] = now
    /\ \E s \in DOMAIN pending_acks[iter.key] : pending_acks[iter.key][s] = now

\* metrics.py, lines 22-47: the gauges that carry the labels of a channel
ChannelMetrics ==
    [ibc_send_packet_backlog_size |-> BACKLOG_SIZE,
     ibc_send_packet_backlog_oldest_sequence |-> BACKLOG_OLDEST_SEQ,
     ibc_send_packet_backlog_oldest_timestamp_seconds |-> BACKLOG_OLDEST_TIMESTAMP,
     ibc_ack_packet_backlog_oldest_sequence |-> ACK_OLDEST_SEQ,
     ibc_ack_packet_backlog_oldest_timestamp_seconds |-> ACK_OLDEST_TIMESTAMP]

\* the value of the gauge of one name for one label tuple, -1 when there is none
GaugeValue(name, l) == Get(Get(ChannelMetrics, name, EmptyMap), l, -1)

\* C36 (as stated): for every channel processed in a cycle six gauges are set
\* with the channel's labels: the size, the oldest sequence and the oldest
\* timestamp of the send backlog P, and the same three of the ack backlog A.
C36_SixGaugesPerChannel ==
    Iterated =>
        \E l \in DOMAIN BACKLOG_SIZE :
           LET P == pending_packets[iter.key]
               A == pending_acks[iter.key]
           IN /\ KeyOf(l) = iter.key
              /\ GaugeValue("ibc_send_packet_backlog_size", l) = Cardinality(DOMAIN P)
              /\ GaugeValue("ibc_send_packet_backlog_oldest_sequence", l) = OldestSeq(P)
              /\ GaugeValue("ibc_send_packet_backlog_oldest_timestamp_seconds", l) = OldestTs(P)
              /\ GaugeValue("ibc_ack_packet_backlog_size", l) = Cardinality(DOMAIN A)
              /\ GaugeValue("ibc_ack_packet_backlog_oldest_sequence", l) = OldestSeq(A)
              /\ GaugeValue("ibc_ack_packet_backlog_oldest_timestamp_seconds", l) = OldestTs(A)

\* C37 (as stated): after every update of a channel K every sequence of
\* pending_acks[K] is in pending_packets[K], and no sequence excluded for the
\* channel is in pending_acks[K] or in the ack oldest-sequence gauge.
C37_AcksArePending ==
    Iterated =>
        /\ DOMAIN pending_acks[iter.key] \subseteq DOMAIN pending_packets[iter.key]
        /\ \A s \in DOMAIN pending_acks[iter.key] : ~ is_excluded(iter.key[4], s)
        /\ \A l \in DOMAIN ACK_OLDEST_SEQ :
              KeyOf(l) = iter.key => ~ is_excluded(iter.key[4], ACK_OLDEST_SEQ[l])

\* C38 (as stated): after every cycle the oldest-timestamp gauge of a channel is
\* the smallest first_seen of the channel's pending map.
C38_OldestTsIsSmallest ==
    pc = "sleep" =>
        /\ \A l \in DOMAIN BACKLOG_OLDEST_TIMESTAMP :
              \A s \in DOMAIN Get(pending_packets, KeyOf(l), EmptyMap) :
                 BACKLOG_OLDEST_TIMESTAMP[l] <= pending_packets[KeyOf(l)][s]
        /\ \A l \in DOMAIN ACK_OLDEST_TIMESTAMP :
              \A s \in DOMAIN Get(pending_acks, KeyOf(l), EmptyMap) :
                 ACK_OLDEST_TIMESTAMP[l] <= pending_acks[KeyOf(l)][s]


-----------------------------------------------------------------------------
(* Properties of the REST client's failover *)

\* the endpoints the client knows: the primary and the fallbacks it holds
KnownNow == {primary} \cup Range(fallbacks)

\* C39: within one query() call, the request after a failed one goes to another
\* endpoint, unless every known endpoint was marked unhealthy when the request
\* failed (the marks were cleared and the failed endpoint could be selected
\* again); after a health() that returned false no further request is sent.
C39_RetryElsewhere ==
    [][ (HomeQueryStep /\ call' # call) =>
          LET sent == call'.sent
              marks == call'.marks
              rets == call'.rets
          IN /\ Len(marks) = Len(rets)
             /\ Len(sent) \in {Len(rets), Len(rets) + 1}
             /\ \A i \in DOMAIN rets :
                   /\ sent[i] \in marks[i]
                   /\ ~ RequestOk(net[sent[i]])
                   /\ ~ rets[i] => (i = Len(rets) /\ Len(sent) = i)
                   /\ (i + 1 \in DOMAIN sent) =>
                         \/ sent[i + 1] # sent[i]
                         \/ KnownNow' \subseteq marks[i] ]_vars

\* a new client whose request fails on the primary, not on the first fallback
\* the registry lists: two requests, the second to the fallback, while the
\* second fallback was never marked
C39_Witness ==
    /\ call.op = "query"
    /\ call.sent = <<primary, "http://f1">>
    /\ call.rets = <<TRUE>>
    /\ call.marks = <<{primary}>>
    /\ fallbacks = <<"http://f1", "http://f2">>
    /\ net["http://f1"] = "mismatch"

\* C40: the active endpoint is the primary or a fallback the client holds and
\* the unhealthy set holds known endpoints only; right after a health() call
\* that returned true, alone or as the last health() of a query(), the active
\* endpoint is not marked unhealthy and is the endpoint probed last, whose
\* probe reported the expected chain id.
C40_ActiveIsKnownAndHealthy ==
    [][ (endpoint \in KnownNow /\ unhealthy \subseteq KnownNow) /\
        (endpoint' \in KnownNow' /\ unhealthy' \subseteq KnownNow') /\
        (((HomeProbeStep /\ call'.ret) \/
          (HomeQueryStep /\ call' # call /\ call'.rets # <<>>
             /\ call'.rets[Len(call'.rets)])) =>
            /\ endpoint' \notin unhealthy'
            /\ call'.probed # <<>>
            /\ endpoint' = call'.probed[Len(call'.probed)]
            /\ ProbeOk(net[endpoint'])) ]_vars

\* the primary is marked and down, health() has just switched to the second
\* fallback because the first names another network
C40_Witness ==
    /\ call.op = "health"
    /\ call.ret
    /\ call.probed = <<"http://f1", "http://f2">>
    /\ endpoint = "http://f2"
    /\ unhealthy = {primary, "http://f1"}


-----------------------------------------------------------------------------
(* Properties of the paging and batching helpers *)

\* the lists of a sequence of lists, one after the other
RECURSIVE Flatten(_)
Flatten(ls) == IF ls = <<>> THEN <<>> ELSE Head(ls) \o Flatten(Tail(ls))

\* C33: against a server that answers N pages, the first N-1 with a next_key and
\* the last without, the pagination helpers send exactly N requests, the first
\* without a key and the k-th with the next_key of page k-1, and return the
\* concatenation of the N page lists in page order.
C33_PaginationComplete ==
    call.op = "_query_all_list" =>
        LET pages == call.pages
            N == Len(pages)
            lists == [k \in 1..N |-> ListOf(pages[k], "commitments")]
        IN /\ Len(call.requests) = N
           /\ call.requests[1] = NoKey
           /\ \A k \in 2..N : Unquote(call.requests[k]) = pages[k - 1].pagination.next_key
           /\ call.ret = Flatten(lists)
           /\ call.scanner = call.ret

\* a listing of three pages whose keys hold characters that are not sent as
\* they are, with an empty second page and a last page without pagination
C33_Witness ==
    /\ call.op = "_query_all_list"
    /\ Len(call.pages) = 3
    /\ call.pages[1].pagination.next_key = "a+b"
    /\ call.pages[2].pagination.next_key = "a/b"
    /\ call.requests = <<NoKey, "a%2Bb", "a%2Fb">>
    /\ call.pages[2].commitments = <<>>
    /\ "pagination" \notin DOMAIN call.pages[3]
    /\ call.ret = <<[sequence |-> "1"], [sequence |-> "2"], [sequence |-> "1"]>>

\* C34: the batching helper splits a list into consecutive non-empty batches of
\* at most BATCH elements whose concatenation is the list; the acknowledgement
\* and the unreceived-ack helper send one request per batch, with the batch's
\* sequences, and return the union of the sequences returned over all batches.
C34_BatchesCoverInput ==
    call.op \in {"_filtered_ack_sequences", "_unreceived_acks"} =>
        LET batches == call.batches
            key == IF call.op = "_unreceived_acks" THEN "sequences" ELSE "acknowledgements"
        IN /\ Flatten(batches) = call.seqs
           /\ \A k \in DOMAIN batches : Len(batches[k]) \in 1..BATCH
           /\ \A k \in DOMAIN batches : k < Len(batches) => Len(batches[k]) = BATCH
           /\ call.requests = batches
           /\ Len(call.responses) = Len(batches)
           /\ call.ret = UNION {Returned(call.responses[k], key) : k \in DOMAIN batches}

\* five sequences go out in three requests, the last about one sequence; the
\* server knows sequence 3 and adds a sequence nobody asked about
C34_Witness ==
    /\ call.op = "_filtered_ack_sequences"
    /\ call.seqs = <<1, 2, 3, 1, 2>>
    /\ Len(call.requests) = NumBatches(Len(call.seqs))
    /\ Len(call.requests[Len(call.requests)]) < BATCH
    /\ call.ret = {3, 9}


-----------------------------------------------------------------------------
(* Properties of the scanner's filters *)

\* a name passes a pair of lists: it matches the whitelist when there is one,
\* and no pattern of the blacklist otherwise
Allowed(name, wl, bl) ==
    IF wl # <<>> THEN \E i \in DOMAIN wl : fnmatch(name, wl[i])
    ELSE \A i \in DOMAIN bl : ~ fnmatch(name, bl[i])

ConnectionAllowed(c) ==
    Allowed(c, filters.whitelist_connections, filters.blacklist_connections)

ChannelAllowed(port, channel) ==
    Allowed(port \o "/" \o channel, filters.whitelist_channels, filters.blacklist_channels)

\* C35: the channel lists are applied to home channels only.  After a scan
\* cp_channels holds every channel the counterparty returned for each derived
\* counterparty connection that passes the connection lists, whatever the
\* channel lists say about it or about its home-side peer, and `channels` holds
\* the home channels of the allowed connections that pass the channel lists.
C35_ChannelFilterHomeOnly ==
    (call.op = "scan" /\ Completed) =>
        /\ {<<cp_channels[i][2], cp_channels[i][3], cp_channels[i][4]>> : i \in DOMAIN cp_channels}
              = {<<c, UpCpConnChannel[c].port_id, UpCpConnChannel[c].channel_id>> :
                    c \in {d \in FoundCpChannels : ConnectionAllowed(d)}}
        /\ {<<channels[i][1], channels[i][3]>> : i \in DOMAIN channels}
              = {t \in FoundChannels : ConnectionAllowed(t[1]) /\ ChannelAllowed("transfer", t[2])}
        /\ \A i \in DOMAIN channels : ChannelAllowed(channels[i][2], channels[i][3])

\* the channel blacklist names the counterparty's channel chA and the connection
\* blacklist the home connection conn2: the scan keeps chA and the channel of
\* the peer of conn2 on the counterparty, and ch1 alone on the home chain
C35_Witness ==
    /\ call.op = "scan"
    /\ Completed
    /\ filters.blacklist_channels = <<"transfer/chA">>
    /\ filters.blacklist_connections = <<"conn2">>
    /\ filters.whitelist_connections = <<>>
    /\ Len(channels) = 1
    /\ channels[1][3] = "ch1"
    /\ {cp_channels[i][4] : i \in DOMAIN cp_channels} = {"chA", "chD"}

=============================================================================
